---- MODULE Spec2Model ----
(***************************************************************************)
(* Project Sentinel: the batch incident pipeline (process_events and the  *)
(* eight detectors of event_detector.py) and the streaming engine (the     *)
(* main loop and the six detectors of Team01_sentinel/src/main.py).        *)
(*                                                                         *)
(* Conventions of the model                                                *)
(*  - a JSON object is a record; a key that is absent from the object is   *)
(*    absent from the record's DOMAIN, so dict.get(k) is Get(d, k);        *)
(*  - Python's None is the string None;                                    *)
(*  - a timestamp string "....THH:MM:SS" is the pair <<MM, SS>> and        *)
(*    datetime.fromisoformat / strptime turn it into seconds;              *)
(*  - an event id "E007" is the character sequence <<"E","0","0","7">>;    *)
(*  - a CSV cell is a sequence of characters, parsed by float();           *)
(*  - weights are whole grams and accuracies whole percents, so that the   *)
(*    float comparisons of the code are exact integer comparisons here     *)
(*    (x * 0.2, x * 0.95 and x * 1.05 are exact in IEEE doubles whenever   *)
(*    the exact product is an integer).                                    *)
(***************************************************************************)
EXTENDS Integers, Sequences, FiniteSets, TLC

VARIABLES
    mode,                       \* which program runs: "batch" or "stream"
    lines,                      \* the input records, in file / feed order
    products_csv,               \* rows of products_list.csv
    initial_inventory,          \* the snapshot file read at streaming start
    pc,                         \* position of the running program
    data,                       \* batch: the dictionary load_all_data returns
    all_detected_events,        \* batch: the list process_events builds
    emitted,                    \* batch: the list as the detectors returned it
    outfile,                    \* the lines written to events.jsonl
    inventory_levels,           \* stream: the ledger
    last_rfid_reads,            \* stream: station -> last IN_SCAN_AREA read
    last_product_recognition,   \* stream: station -> last recognition
    error_log,                  \* stream: number of lines in error.log
    next_line,                  \* stream: index of the next feed line
    stream_data,                \* stream: the line processed last
    line_events,                \* stream: the incidents written for that line
    sources_available,          \* the input files / the feed can be opened
    outfile_opened,             \* this run created or truncated events.jsonl
    unflushed                   \* stream: lines written to the file, not flushed

vars == <<mode, lines, products_csv, initial_inventory, pc, data,
          all_detected_events, emitted, outfile, inventory_levels,
          last_rfid_reads, last_product_recognition, error_log, next_line,
          stream_data, line_events, sources_available, outfile_opened, unflushed>>

-----------------------------------------------------------------------------
(* Python values *)

None == "None"

Get(d, k) == IF k \in DOMAIN d THEN d[k] ELSE None

GetOr(d, k, default) == IF k \in DOMAIN d THEN d[k] ELSE default

Has(d, k) == k \in DOMAIN d

\* truth value of a str-or-None
Truthy(s) == s # None /\ s # ""

Abs(x) == IF x < 0 THEN -x ELSE x

Max(a, b) == IF a >= b THEN a ELSE b

\* the lists appended one after another
RECURSIVE Flatten(_)
Flatten(ss) == IF ss = <<>> THEN <<>> ELSE Head(ss) \o Flatten(Tail(ss))

LastOf(s) == IF s = <<>> THEN <<>> ELSE <<s[Len(s)]>>

\* the first element, as a 0- or 1-element sequence
FirstOf(s) == IF s = <<>> THEN <<>> ELSE <<Head(s)>>

Range(s) == {s[i] : i \in DOMAIN s}

BoundedSeq(S, n) == UNION {[1..k -> S] : k \in 0..n}

Perms(S) == {p \in [1..Cardinality(S) -> S] : \A x \in S : \E i \in DOMAIN p : p[i] = x}

-----------------------------------------------------------------------------
(* Timestamps, numbers and identifiers *)

fromisoformat(ts) == ts[1] * 60 + ts[2]

total_seconds(later, earlier) == fromisoformat(later) - fromisoformat(earlier)

DigitChars == <<"0", "1", "2", "3", "4", "5", "6", "7", "8", "9">>

DigitChar(d) == DigitChars[d + 1]

IsDigitChar(c) == \E d \in 0..9 : DigitChars[d + 1] = c

DigitVal(c) == CHOOSE d \in 0..9 : DigitChars[d + 1] = c

RECURSIVE Decimal(_)
Decimal(n) == IF n < 10 THEN <<DigitChar(n)>> ELSE Decimal(n \div 10) \o <<DigitChar(n % 10)>>

RECURSIVE ZeroPad(_, _)
ZeroPad(s, width) == IF Len(s) >= width THEN s ELSE ZeroPad(<<"0">> \o s, width)

IdWidth == 3

FormatIdNoPad(idx) == <<"E">> \o Decimal(idx)

\* f'E{idx:03d}'
FormatId(idx) == <<"E">> \o ZeroPad(Decimal(idx), IdWidth)

\* float(cell) of a CSV cell: the value, or "ValueError"
CanParse(cell) == cell # <<>> /\ \A i \in DOMAIN cell : IsDigitChar(cell[i])

RECURSIVE ParseDigits(_)
ParseDigits(cell) ==
    IF cell = <<>> THEN 0
    ELSE ParseDigits(SubSeq(cell, 1, Len(cell) - 1)) * 10 + DigitVal(cell[Len(cell)])

TimeKey(x) == fromisoformat(x.timestamp)

\* list.sort(key=...) is stable: insertion after the last element whose key is <=
RECURSIVE InsertByTimestamp(_, _)
InsertByTimestamp(x, s) ==
    IF s = <<>> THEN <<x>>
    ELSE IF TimeKey(s[Len(s)]) <= TimeKey(x) THEN Append(s, x)
    ELSE Append(InsertByTimestamp(x, SubSeq(s, 1, Len(s) - 1)), s[Len(s)])

RECURSIVE SortByTimestamp(_)
SortByTimestamp(s) ==
    IF s = <<>> THEN <<>>
    ELSE InsertByTimestamp(s[Len(s)], SortByTimestamp(SubSeq(s, 1, Len(s) - 1)))

\* iteration of a set of str/None values
SetIter(S, order) == SelectSeq(order, LAMBDA x : x \in S)

-----------------------------------------------------------------------------
(* Incidents *)

Incident(ts, id, event_data) ==
    [timestamp |-> ts, event_id |-> id, event_data |-> event_data]

\* the per-detector counter: the k-th incident appended carries E{k-1:03d}
NumberFrom(evs, first) ==
    [i \in 1..Len(evs) |-> [evs[i] EXCEPT !.event_id = FormatId(first + i - 1)]]

NumberEvents(evs) == NumberFrom(evs, 0)

-----------------------------------------------------------------------------
(* event_detector.py: the eight batch detectors *)

ScannerAvoidanceWindow == 10
BarcodeSwitchWindow == 5
SuccessWindow == 10
WeightTolerancePercent == 20
AccuracyThresholdPercent == 50
QueueThreshold == 5
WaitThreshold == 300
CrashGapThreshold == 120
InventoryThresholdPercent == 10
InventoryAbsThreshold == 5

WithinWindowStrict(time_diff, window) == time_diff < window

\* time_diff <= time_window_seconds
WithinWindow(time_diff, window) == time_diff <= window

TimeDiff(a, b) == Abs(total_seconds(a.timestamp, b.timestamp))

AtStation(s, st) == SelectSeq(s, LAMBDA r : r.station_id = st)

UnscannedKeepsScanned(rfid_skus, pos_sku) == rfid_skus

\* rfid_skus - {pos_sku}
Unscanned(rfid_skus, pos_sku) == rfid_skus \ {pos_sku}

detect_scanner_avoidance(pos_transactions, rfid_readings, order) ==
    LET in_scan_area ==
            SelectSeq(rfid_readings, LAMBDA r : Get(r.data, "location") = "IN_SCAN_AREA")
        ForPos(pos) ==
            LET near == SelectSeq(AtStation(in_scan_area, pos.station_id),
                            LAMBDA r : WithinWindow(TimeDiff(r, pos), ScannerAvoidanceWindow))
                rfid_skus == {Get(near[i].data, "sku") : i \in DOMAIN near}
                unscanned_skus == SetIter(Unscanned(rfid_skus, Get(pos.data, "sku")), order)
            IN  [i \in DOMAIN unscanned_skus |->
                    Incident(pos.timestamp, <<>>,
                        [event_name |-> "Scanner Avoidance",
                         station_id |-> pos.station_id,
                         customer_id |-> Get(pos.data, "customer_id"),
                         product_sku |-> unscanned_skus[i]])]
    IN  NumberEvents(Flatten([k \in DOMAIN pos_transactions |-> ForPos(pos_transactions[k])]))

detect_barcode_switching(pos_transactions, product_recognition) ==
    LET confident ==
            SelectSeq(product_recognition,
                LAMBDA r : GetOr(r.data, "accuracy", 0) > AccuracyThresholdPercent)
        ForPos(pos) ==
            LET scanned_sku == Get(pos.data, "sku")
                hit == FirstOf(SelectSeq(AtStation(confident, pos.station_id),
                    LAMBDA r : /\ WithinWindow(TimeDiff(r, pos), BarcodeSwitchWindow)
                               /\ Truthy(Get(r.data, "predicted_product"))
                               /\ Get(r.data, "predicted_product") # scanned_sku))
            IN  [i \in DOMAIN hit |->
                    Incident(pos.timestamp, <<>>,
                        [event_name |-> "Barcode Switching",
                         station_id |-> pos.station_id,
                         customer_id |-> Get(pos.data, "customer_id"),
                         actual_sku |-> Get(hit[i].data, "predicted_product"),
                         scanned_sku |-> scanned_sku])]
    IN  NumberEvents(Flatten([k \in DOMAIN pos_transactions |-> ForPos(pos_transactions[k])]))

\* the rows that enter product_weights: sku and weight truthy, float(weight) succeeds
ValidProductRow(row) ==
    /\ Truthy(Get(row, "SKU"))
    /\ Has(row, "weight") /\ row.weight # <<>>
    /\ CanParse(row.weight)

\* product_weights: the last valid row of a SKU wins
product_weights(products_list) ==
    LET valid == SelectSeq(products_list, ValidProductRow)
    IN  [sku \in {valid[i].SKU : i \in DOMAIN valid} |->
            LET mine == SelectSeq(valid, LAMBDA row : row.SKU = sku)
            IN  ParseDigits(mine[Len(mine)].weight)]

WeightPresentNotNone(pos_data) == Has(pos_data, "weight_g")

\* `and actual_weight`: a weight of 0 is falsy
WeightPresent(pos_data) == Has(pos_data, "weight_g") /\ pos_data.weight_g # 0

WeightOutsideInclusive(actual, expected, percent) ==
    100 * Abs(actual - expected) >= percent * expected

\* abs(actual - expected) > expected * (tolerance_percent / 100.0)
WeightOutside(actual, expected, percent) ==
    100 * Abs(actual - expected) > percent * expected

detect_weight_discrepancies(pos_transactions, products_list) ==
    LET weights == product_weights(products_list)
        ForPos(pos) ==
            LET sku == Get(pos.data, "sku")
            IN  IF /\ sku \in DOMAIN weights
                   /\ WeightPresent(pos.data)
                   /\ WeightOutside(pos.data.weight_g, weights[sku], WeightTolerancePercent)
                THEN <<Incident(pos.timestamp, <<>>,
                        [event_name |-> "Weight Discrepancies",
                         station_id |-> pos.station_id,
                         customer_id |-> Get(pos.data, "customer_id"),
                         product_sku |-> sku,
                         expected_weight |-> weights[sku],
                         actual_weight |-> pos.data.weight_g])>>
                ELSE <<>>
    IN  NumberEvents(Flatten([k \in DOMAIN pos_transactions |-> ForPos(pos_transactions[k])]))

ExceedsOrEquals(value, threshold) == value >= threshold

\* customer_count > threshold, average_dwell_time > threshold_seconds
Exceeds(value, threshold) == value > threshold

detect_long_queues(queue_monitoring) ==
    LET ForQueue(queue) ==
            LET customer_count == GetOr(queue.data, "customer_count", 0)
            IN  IF Exceeds(customer_count, QueueThreshold)
                THEN <<Incident(queue.timestamp, <<>>,
                        [event_name |-> "Long Queue Length",
                         station_id |-> queue.station_id,
                         num_of_customers |-> customer_count])>>
                ELSE <<>>
    IN  NumberEvents(Flatten([k \in DOMAIN queue_monitoring |-> ForQueue(queue_monitoring[k])]))

detect_long_wait_times(queue_monitoring) ==
    LET ForQueue(queue) ==
            LET avg_dwell_time == GetOr(queue.data, "average_dwell_time", 0)
            IN  IF Exceeds(avg_dwell_time, WaitThreshold)
                THEN <<Incident(queue.timestamp, <<>>,
                        [event_name |-> "Long Wait Time",
                         station_id |-> queue.station_id,
                         wait_time_seconds |-> avg_dwell_time])>>
                ELSE <<>>
    IN  NumberEvents(Flatten([k \in DOMAIN queue_monitoring |-> ForQueue(queue_monitoring[k])]))

\* keys of station_events, in insertion order
RECURSIVE StationsInOrder(_, _)
StationsInOrder(events, seen) ==
    IF events = <<>> THEN <<>>
    ELSE LET st == Get(Head(events), "station_id")
         IN  IF Truthy(st) /\ st \notin seen
             THEN <<st>> \o StationsInOrder(Tail(events), seen \cup {st})
             ELSE StationsInOrder(Tail(events), seen)

IsCrashGapStrict(gap, threshold) == gap > threshold

\* gap >= gap_threshold_seconds
IsCrashGap(gap, threshold) == gap >= threshold

StationEventsUngrouped(all_events, station_id) ==
    SelectSeq(all_events, LAMBDA e : Truthy(e.station_id))

\* station_events[station_id]
StationEvents(all_events, station_id) ==
    SelectSeq(all_events, LAMBDA e : Get(e, "station_id") = station_id)

detect_system_crashes(all_events) ==
    LET ForStation(station_id) ==
            LET station_event_list ==
                    SortByTimestamp(StationEvents(all_events, station_id))
                ForIndex(i) ==
                    LET gap == total_seconds(station_event_list[i + 1].timestamp,
                                             station_event_list[i].timestamp)
                    IN  IF IsCrashGap(gap, CrashGapThreshold)
                        THEN <<Incident(station_event_list[i + 1].timestamp, <<>>,
                                [event_name |-> "Unexpected Systems Crash",
                                 station_id |-> station_id,
                                 duration_seconds |-> gap])>>
                        ELSE <<>>
            IN  Flatten([i \in 1..(Len(station_event_list) - 1) |-> ForIndex(i)])
    IN  NumberEvents(Flatten([k \in DOMAIN StationsInOrder(all_events, {}) |-> ForStation(StationsInOrder(all_events, {})[k])]))

\* a snapshot's data: the (sku, quantity) items of the JSON object, in order
ItemsOf(snapshot) == GetOr(snapshot, "data", <<>>)

SoldAfter(pos_transactions, snapshot, sku) ==
    Cardinality({i \in DOMAIN pos_transactions :
        /\ fromisoformat(pos_transactions[i].timestamp) > fromisoformat(snapshot.timestamp)
        /\ Get(pos_transactions[i].data, "sku") = sku})

detect_inventory_discrepancies(inventory_snapshots, pos_transactions) ==
    IF inventory_snapshots = <<>> THEN <<>>
    ELSE
    LET initial_snapshot == inventory_snapshots[1]
        ForItem(item) ==
            LET sku == item[1]
                actual_qty == item[2]
                expected_qty == actual_qty - SoldAfter(pos_transactions, initial_snapshot, sku)
                diff == Abs(expected_qty - actual_qty)
            IN  IF /\ actual_qty > 0
                   /\ 100 * diff > InventoryThresholdPercent * actual_qty
                   /\ diff > InventoryAbsThreshold
                THEN <<Incident(initial_snapshot.timestamp, <<>>,
                        [event_name |-> "Inventory Discrepancy",
                         SKU |-> sku,
                         Expected_Inventory |-> actual_qty,
                         Actual_Inventory |-> expected_qty])>>
                ELSE <<>>
    IN  NumberEvents(Flatten([k \in DOMAIN ItemsOf(initial_snapshot) |-> ForItem(ItemsOf(initial_snapshot)[k])]))

detect_success_operations(pos_transactions, rfid_readings) ==
    LET ForPos(pos) ==
            LET pos_sku == Get(pos.data, "sku")
                rfid_match == \E i \in DOMAIN rfid_readings :
                    /\ rfid_readings[i].station_id = pos.station_id
                    /\ WithinWindow(TimeDiff(rfid_readings[i], pos), SuccessWindow)
                    /\ Get(rfid_readings[i].data, "sku") = pos_sku
            IN  IF rfid_match
                THEN <<Incident(pos.timestamp, <<>>,
                        [event_name |-> "Succes Operation",
                         station_id |-> pos.station_id,
                         customer_id |-> Get(pos.data, "customer_id"),
                         product_sku |-> pos_sku])>>
                ELSE <<>>
    IN  NumberEvents(Flatten([k \in DOMAIN pos_transactions |-> ForPos(pos_transactions[k])]))

-----------------------------------------------------------------------------
(* data_loader.py and the batch main.py *)

OfDataset(s, dataset) == SelectSeq(s, LAMBDA r : r.dataset = dataset)

\* load_all_data: the four event streams are sorted, the snapshots are not
load_all_data(files, products) ==
    [pos_transactions |-> SortByTimestamp(OfDataset(files, "POS_Transactions")),
     rfid_readings |-> SortByTimestamp(OfDataset(files, "RFID_data")),
     queue_monitoring |-> SortByTimestamp(OfDataset(files, "Queue_monitor")),
     product_recognition |-> SortByTimestamp(OfDataset(files, "Product_recognism")),
     inventory_snapshots |-> OfDataset(files, "Current_inventory_data"),
     products_list |-> products]

\* all_events of process_events
AllEvents(d) ==
    d.pos_transactions \o d.rfid_readings \o d.queue_monitoring \o d.product_recognition

DetectAllTableOrder(d, order) ==
    detect_scanner_avoidance(d.pos_transactions, d.rfid_readings, order)
        \o detect_barcode_switching(d.pos_transactions, d.product_recognition)
        \o detect_weight_discrepancies(d.pos_transactions, d.products_list)
        \o detect_long_queues(d.queue_monitoring)
        \o detect_long_wait_times(d.queue_monitoring)
        \o detect_inventory_discrepancies(d.inventory_snapshots, d.pos_transactions)
        \o detect_system_crashes(AllEvents(d))
        \o detect_success_operations(d.pos_transactions, d.rfid_readings)

\* the eight extend() calls of process_events, in the order of the code
DetectAll(d, order) ==
    detect_scanner_avoidance(d.pos_transactions, d.rfid_readings, order)
        \o detect_barcode_switching(d.pos_transactions, d.product_recognition)
        \o detect_weight_discrepancies(d.pos_transactions, d.products_list)
        \o detect_long_queues(d.queue_monitoring)
        \o detect_long_wait_times(d.queue_monitoring)
        \o detect_system_crashes(AllEvents(d))
        \o detect_inventory_discrepancies(d.inventory_snapshots, d.pos_transactions)
        \o detect_success_operations(d.pos_transactions, d.rfid_readings)

SortEventsUnsorted(evs) == evs

RECURSIVE DropRepeats(_)
DropRepeats(evs) ==
    IF Len(evs) <= 1 THEN evs
    ELSE LET rest == DropRepeats(Tail(evs))
         IN  IF [Head(evs) EXCEPT !.event_id = <<>>] = [Head(rest) EXCEPT !.event_id = <<>>]
             THEN rest ELSE <<Head(evs)>> \o rest

SortEventsDropRepeats(evs) == DropRepeats(SortByTimestamp(evs))

\* all_detected_events.sort(key=lambda x: datetime.fromisoformat(x['timestamp']))
SortEvents(evs) == SortByTimestamp(evs)

ReassignIdsKeep(evs) == evs

\* for idx, event in enumerate(all_detected_events): event['event_id'] = f'E{idx:03d}'
ReassignIds(evs) == NumberFrom(evs, 0)

\* the values a set of SKUs can hold
SkuValues == {"A", "B", None}

HashOrders == Perms(SkuValues)

BatchUnchanged ==
    UNCHANGED <<mode, lines, products_csv, initial_inventory, inventory_levels,
                last_rfid_reads, last_product_recognition, error_log, next_line,
                stream_data, line_events, sources_available, unflushed>>

\* json.loads accepts the line
Decodes(line) == ~Has(line, "text")

\* load_all_data raises: json.loads on a line that is no JSON, or the sort key
\* x['timestamp'] on a record of the four sorted streams that has none
RaisesInLoad(files) ==
    \E i \in DOMAIN files :
        \/ ~Decodes(files[i])
        \/ /\ files[i].dataset \in {"POS_Transactions", "RFID_data", "Queue_monitor",
                                     "Product_recognism"}
           /\ ~Has(files[i], "timestamp")

\* a detector raises KeyError: pos['station_id'], rfid['station_id'],
\* queue['station_id'], recog['station_id'] of a confident recognition,
\* initial_snapshot['timestamp']
RaisesInDetection(d) ==
    \/ \E i \in DOMAIN d.pos_transactions : ~Has(d.pos_transactions[i], "station_id")
    \/ \E i \in DOMAIN d.rfid_readings : ~Has(d.rfid_readings[i], "station_id")
    \/ \E i \in DOMAIN d.queue_monitoring : ~Has(d.queue_monitoring[i], "station_id")
    \/ \E i \in DOMAIN d.product_recognition :
        /\ GetOr(d.product_recognition[i].data, "accuracy", 0) > AccuracyThresholdPercent
        /\ ~Has(d.product_recognition[i], "station_id")
    \/ /\ d.inventory_snapshots # <<>>
       /\ ~Has(d.inventory_snapshots[1], "timestamp")

\* process_events from the load to the written file; the order in which this
\* process iterates a set of str is fixed by its hash seed, which differs from
\* run to run
\* An input file that cannot be opened and a record that makes the load or a
\* detector raise end the run before the output file is opened.
process_events ==
    /\ mode = "batch" /\ pc = "start"
    /\ IF ~sources_available
       THEN /\ pc' = "fatal"
            /\ UNCHANGED <<data, emitted, all_detected_events, outfile, outfile_opened>>
       ELSE IF RaisesInLoad(lines)
       THEN /\ pc' = "crashed"
            /\ UNCHANGED <<data, emitted, all_detected_events, outfile, outfile_opened>>
       ELSE /\ data' = load_all_data(lines, products_csv)
            /\ IF RaisesInDetection(data')
               THEN /\ pc' = "crashed"
                    /\ UNCHANGED <<emitted, all_detected_events, outfile, outfile_opened>>
               ELSE /\ \E order \in HashOrders :
                        /\ emitted' = DetectAll(data', order)
                        /\ all_detected_events' = ReassignIds(SortEvents(emitted'))
                    /\ outfile' = all_detected_events'
                    /\ outfile_opened' = TRUE
                    /\ pc' = "done"
    /\ BatchUnchanged

-----------------------------------------------------------------------------
(* Team01_sentinel/src/main.py: the streaming engine *)

StreamWindow == 5
StreamQueueThreshold == 5
StreamWaitThreshold == 300
StreamInventoryThreshold == 5
StreamWeightLowPercent == 95
StreamWeightHighPercent == 105

\* datetime.strptime(stream_data['timestamp'], "%Y-%m-%dT%H:%M:%S"), or None
DatetimeOf(line) == IF Has(line, "timestamp") THEN <<fromisoformat(line.timestamp)>> ELSE <<>>

\* the entry a defaultdict creates on first access
NoRead == [datetime |-> <<>>, sku |-> None]

Lookup(table, station_id) ==
    IF station_id \in DOMAIN table THEN table[station_id] ELSE NoRead

Store(table, station_id, entry) ==
    [st \in DOMAIN table \cup {station_id} |->
        IF st = station_id THEN entry ELSE table[st]]

\* what a detector hands back: the state it leaves, the incident it returns
\* (none or one), whether it raised, and how many lines it logged itself
Outcome(inv, rfid, recog, ev, raised, logged) ==
    [inv |-> inv, rfid |-> rfid, recog |-> recog, ev |-> ev, raised |-> raised,
     logged |-> logged]

RecentlyWithin(now, then, window) == Abs(now - then) <= window

\* stream_data['datetime'] - last['datetime'] < timedelta(seconds=5)
Recently(now, then, window) == now - then < window

stream_scanner_avoidance(line, inv, rfid, recog) ==
    LET station_id == Get(line, "station_id")
        d == GetOr(line, "data", <<>>)
    IN  IF ~Truthy(station_id) THEN Outcome(inv, rfid, recog, <<>>, FALSE, 0)
        ELSE IF line.dataset = "RFID_data" THEN
            IF Get(d, "location") = "IN_SCAN_AREA"
            THEN Outcome(inv,
                    Store(rfid, station_id, [datetime |-> DatetimeOf(line), sku |-> Get(d, "sku")]),
                    recog, <<>>, FALSE, 0)
            ELSE Outcome(inv, rfid, recog, <<>>, FALSE, 0)
        ELSE IF line.dataset = "POS_Transactions" THEN
            LET last_read == Lookup(rfid, station_id)
                seen == Store(rfid, station_id, last_read)
            IN  IF /\ Truthy(last_read.sku) /\ last_read.sku # Get(d, "sku")
                   /\ DatetimeOf(line) # <<>> /\ last_read.datetime # <<>>
                   /\ Recently(DatetimeOf(line)[1], last_read.datetime[1], StreamWindow)
                THEN Outcome(inv, seen, recog,
                        <<Incident(line.timestamp, <<"E", "0", "0", "1">>,
                            [event_name |-> "Scanner Avoidance",
                             station_id |-> station_id,
                             customer_id |-> Get(d, "customer_id"),
                             product_sku |-> last_read.sku])>>, FALSE, 0)
                ELSE Outcome(inv, seen, recog, <<>>, FALSE, 0)
        ELSE Outcome(inv, rfid, recog, <<>>, FALSE, 0)

\* the first item of the snapshot that is tracked and off by more than 5
FirstDiscrepancy(items, inv) ==
    FirstOf(SelectSeq(items,
        LAMBDA item : /\ item[1] \in DOMAIN inv
                      /\ Abs(inv[item[1]] - item[2]) > StreamInventoryThreshold))

DecrementedAll(inv, sku) == [k \in DOMAIN inv |-> inv[k] - 1]

\* inventory_levels[sku] -= 1
Decremented(inv, sku) == [inv EXCEPT ![sku] = @ - 1]

stream_inventory_discrepancy(line, inv, rfid, recog) ==
    LET d == GetOr(line, "data", <<>>)
    IN  IF line.dataset = "POS_Transactions" THEN
            LET sku == Get(d, "sku")
            IN  IF Truthy(sku) /\ sku \in DOMAIN inv
                THEN Outcome(Decremented(inv, sku), rfid, recog, <<>>, FALSE, 0)
                ELSE Outcome(inv, rfid, recog, <<>>, FALSE, 0)
        ELSE IF line.dataset = "Current_inventory_data" THEN
            LET hit == FirstDiscrepancy(d, inv)
            IN  IF hit = <<>> THEN Outcome(inv, rfid, recog, <<>>, FALSE, 0)
                ELSE
                LET sku == hit[1][1]
                    actual_count == hit[1][2]
                    resynced == [inv EXCEPT ![sku] = actual_count]
                IN  IF ~Has(line, "timestamp")
                    THEN Outcome(resynced, rfid, recog, <<>>, TRUE, 0)
                    ELSE Outcome(resynced, rfid, recog,
                            <<Incident(line.timestamp, <<"E", "0", "0", "7">>,
                                [event_name |-> "Inventory Discrepancy",
                                 SKU |-> sku,
                                 Expected_Inventory |-> inv[sku],
                                 Actual_Inventory |-> actual_count])>>, FALSE, 0)
        ELSE Outcome(inv, rfid, recog, <<>>, FALSE, 0)

stream_long_queue(line, inv, rfid, recog) ==
    LET count == GetOr(GetOr(line, "data", <<>>), "customer_count", 0)
    IN  IF line.dataset = "Queue_monitor" /\ Exceeds(count, StreamQueueThreshold)
        THEN IF ~Has(line, "timestamp") \/ ~Has(line, "station_id")
             THEN Outcome(inv, rfid, recog, <<>>, TRUE, 0)
             ELSE Outcome(inv, rfid, recog,
                    <<Incident(line.timestamp, <<"E", "0", "0", "5">>,
                        [event_name |-> "Long Queue Length",
                         station_id |-> line.station_id,
                         num_of_customers |-> count])>>, FALSE, 0)
        ELSE Outcome(inv, rfid, recog, <<>>, FALSE, 0)

stream_long_wait_time(line, inv, rfid, recog) ==
    LET dwell == GetOr(GetOr(line, "data", <<>>), "average_dwell_time", 0)
    IN  IF line.dataset = "Queue_monitor" /\ Exceeds(dwell, StreamWaitThreshold)
        THEN IF ~Has(line, "timestamp") \/ ~Has(line, "station_id")
             THEN Outcome(inv, rfid, recog, <<>>, TRUE, 0)
             ELSE Outcome(inv, rfid, recog,
                    <<Incident(line.timestamp, <<"E", "0", "0", "6">>,
                        [event_name |-> "Long Wait Time",
                         station_id |-> line.station_id,
                         wait_time_seconds |-> dwell])>>, FALSE, 0)
        ELSE Outcome(inv, rfid, recog, <<>>, FALSE, 0)

\* load_csv_data: rows keyed by their first column, a later row replacing an
\* earlier one, rows with an empty key left out
load_csv_data(rows) ==
    LET keyed == SelectSeq(rows, LAMBDA row : Truthy(Get(row, "SKU")) )
    IN  [sku \in {keyed[i].SKU : i \in DOMAIN keyed} |->
            LET mine == SelectSeq(keyed, LAMBDA row : row.SKU = sku)
            IN  mine[Len(mine)]]

\* not (expected * 0.95 <= actual <= expected * 1.05)
StreamWeightOutside(actual, expected) ==
    ~(/\ StreamWeightLowPercent * expected <= 100 * actual
      /\ 100 * actual <= StreamWeightHighPercent * expected)

stream_weight_discrepancy(line, inv, rfid, recog, products) ==
    LET d == GetOr(line, "data", <<>>)
        sku == Get(d, "sku")
    IN  IF /\ line.dataset = "POS_Transactions"
           /\ Truthy(sku) /\ WeightPresentNotNone(d) /\ sku \in DOMAIN products
        THEN
            \* KeyError and ValueError are caught and logged by the detector
            IF ~Has(products[sku], "weight") \/ ~CanParse(products[sku].weight)
            THEN Outcome(inv, rfid, recog, <<>>, FALSE, 1)
            ELSE
            LET expected_weight == ParseDigits(products[sku].weight)
            IN  IF StreamWeightOutside(d.weight_g, expected_weight)
                THEN IF ~Has(line, "timestamp")
                     THEN Outcome(inv, rfid, recog, <<>>, FALSE, 1)
                     ELSE Outcome(inv, rfid, recog,
                            <<Incident(line.timestamp, <<"E", "0", "0", "3">>,
                                [event_name |-> "Weight Discrepancies",
                                 station_id |-> Get(line, "station_id"),
                                 customer_id |-> Get(d, "customer_id"),
                                 product_sku |-> sku,
                                 expected_weight |-> expected_weight,
                                 actual_weight |-> d.weight_g])>>, FALSE, 0)
                ELSE Outcome(inv, rfid, recog, <<>>, FALSE, 0)
        ELSE Outcome(inv, rfid, recog, <<>>, FALSE, 0)

stream_barcode_switching(line, inv, rfid, recog) ==
    LET station_id == Get(line, "station_id")
        d == GetOr(line, "data", <<>>)
    IN  IF ~Truthy(station_id) THEN Outcome(inv, rfid, recog, <<>>, FALSE, 0)
        ELSE IF line.dataset = "Product_recognism" THEN
            Outcome(inv, rfid,
                Store(recog, station_id,
                    [datetime |-> DatetimeOf(line), sku |-> Get(d, "predicted_product")]),
                <<>>, FALSE, 0)
        ELSE IF line.dataset = "POS_Transactions" THEN
            LET last_rec == Lookup(recog, station_id)
                seen == Store(recog, station_id, last_rec)
            IN  IF /\ Truthy(last_rec.sku) /\ last_rec.sku # Get(d, "sku")
                   /\ DatetimeOf(line) # <<>> /\ last_rec.datetime # <<>>
                   /\ Recently(DatetimeOf(line)[1], last_rec.datetime[1], StreamWindow)
                THEN Outcome(inv, rfid, seen,
                        <<Incident(line.timestamp, <<"E", "0", "0", "2">>,
                            [event_name |-> "Barcode Switching",
                             station_id |-> station_id,
                             customer_id |-> Get(d, "customer_id"),
                             actual_sku |-> last_rec.sku,
                             scanned_sku |-> Get(d, "sku")])>>, FALSE, 0)
                ELSE Outcome(inv, rfid, seen, <<>>, FALSE, 0)
        ELSE Outcome(inv, rfid, recog, <<>>, FALSE, 0)

NumDetectors == 6

DetectorBarcodeFirst(i, line, inv, rfid, recog, products) ==
    CASE i = 1 -> stream_barcode_switching(line, inv, rfid, recog)
      [] i = 2 -> stream_inventory_discrepancy(line, inv, rfid, recog)
      [] i = 3 -> stream_long_queue(line, inv, rfid, recog)
      [] i = 4 -> stream_long_wait_time(line, inv, rfid, recog)
      [] i = 5 -> stream_weight_discrepancy(line, inv, rfid, recog, products)
      [] OTHER -> stream_scanner_avoidance(line, inv, rfid, recog)

\* the list `detectors` of main()
Detector(i, line, inv, rfid, recog, products) ==
    CASE i = 1 -> stream_scanner_avoidance(line, inv, rfid, recog)
      [] i = 2 -> stream_inventory_discrepancy(line, inv, rfid, recog)
      [] i = 3 -> stream_long_queue(line, inv, rfid, recog)
      [] i = 4 -> stream_long_wait_time(line, inv, rfid, recog)
      [] i = 5 -> stream_weight_discrepancy(line, inv, rfid, recog, products)
      [] OTHER -> stream_barcode_switching(line, inv, rfid, recog)

\* `for detector in detectors:` inside the try of the read loop; an exception
\* ends the loop for this line and is logged, what was written stays written
RECURSIVE RunDetectors(_, _, _, _, _, _, _, _)
RunDetectors(i, line, inv, rfid, recog, products, out, errs) ==
    IF i > NumDetectors
    THEN [inv |-> inv, rfid |-> rfid, recog |-> recog, out |-> out, errs |-> errs]
    ELSE LET r == Detector(i, line, inv, rfid, recog, products)
         IN  IF r.raised
             THEN [inv |-> r.inv, rfid |-> r.rfid, recog |-> r.recog, out |-> out,
                   errs |-> errs + r.logged + 1]
             ELSE RunDetectors(i + 1, line, r.inv, r.rfid, r.recog, products,
                               out \o r.ev, errs + r.logged)

OnDecodeErrorForgets(inv, rfid, recog) ==
    [inv |-> inv, rfid |-> <<>>, recog |-> <<>>, out |-> <<>>, errs |-> 1]

\* except json.JSONDecodeError: log_error(...)
OnDecodeError(inv, rfid, recog) ==
    [inv |-> inv, rfid |-> rfid, recog |-> recog, out |-> <<>>, errs |-> 1]

\* the body of the try of the read loop, but for the writes
ProcessRecord(line, inv, rfid, recog, products) ==
    IF Decodes(line)
    THEN RunDetectors(1, line, inv, rfid, recog, products, <<>>, 0)
    ELSE OnDecodeError(inv, rfid, recog)

\* outfile.write(json.dumps(event) + '\n')
Written(sink, ev) == [disk |-> sink.disk, buffer |-> Append(sink.buffer, ev)]

FlushedNothing(sink) == sink

\* outfile.flush()
Flushed(sink) == [disk |-> sink.disk \o sink.buffer, buffer |-> <<>>]

\* the write and the flush of every incident of a line, one after the other
RECURSIVE Emit(_, _)
Emit(sink, evs) ==
    IF evs = <<>> THEN sink
    ELSE Emit(Flushed(Written(sink, Head(evs))), Tail(evs))

\* load_initial_inventory: inventory_levels = snapshot.get('data', {})
LedgerOf(items) ==
    [sku \in {items[i][1] : i \in DOMAIN items} |->
        LET mine == SelectSeq(items, LAMBDA item : item[1] = sku)
        IN  mine[Len(mine)][2]]

StreamUnchanged ==
    UNCHANGED <<mode, lines, products_csv, initial_inventory, data,
                all_detected_events, emitted, sources_available>>

\* main() up to the connection: a missing catalog or inventory ends the run
StreamStart ==
    /\ mode = "stream" /\ pc = "start"
    /\ inventory_levels' = LedgerOf(ItemsOf(initial_inventory))
    /\ IF DOMAIN load_csv_data(products_csv) = {} \/ DOMAIN inventory_levels' = {}
       THEN pc' = "fatal" /\ UNCHANGED <<outfile, outfile_opened, error_log>>
       ELSE \* open(OUTPUT_FILE, 'w').close(), then the socket and the file are
            \* opened, then s.connect
            /\ outfile' = <<>>
            /\ outfile_opened' = TRUE
            /\ IF sources_available
               THEN pc' = "running" /\ UNCHANGED error_log
               ELSE pc' = "refused" /\ error_log' = error_log + 1
    /\ UNCHANGED <<last_rfid_reads, last_product_recognition, next_line,
                   stream_data, line_events, unflushed>>
    /\ StreamUnchanged

\* one iteration of `for line in sock_file:`
ProcessLine ==
    /\ mode = "stream" /\ pc = "running"
    /\ next_line <= Len(lines)
    /\ LET line == lines[next_line]
           r == ProcessRecord(line, inventory_levels, last_rfid_reads,
                              last_product_recognition, load_csv_data(products_csv))
       IN  /\ inventory_levels' = r.inv
           /\ last_rfid_reads' = r.rfid
           /\ last_product_recognition' = r.recog
           /\ LET sink == Emit([disk |-> outfile, buffer |-> unflushed], r.out)
              IN  outfile' = sink.disk /\ unflushed' = sink.buffer
           /\ error_log' = error_log + r.errs
           /\ stream_data' = line
           /\ line_events' = r.out
    /\ next_line' = next_line + 1
    /\ UNCHANGED <<pc, outfile_opened>>
    /\ StreamUnchanged

\* the server closes the connection; leaving the with block closes the file
EndOfStream ==
    /\ mode = "stream" /\ pc = "running"
    /\ next_line > Len(lines)
    /\ pc' = "done"
    /\ outfile' = outfile \o unflushed
    /\ unflushed' = <<>>
    /\ UNCHANGED <<inventory_levels, last_rfid_reads, last_product_recognition,
                   error_log, next_line, stream_data, line_events, outfile_opened>>
    /\ StreamUnchanged

Next ==
    \/ process_events
    \/ StreamStart
    \/ ProcessLine
    \/ EndOfStream

-----------------------------------------------------------------------------
(* Inputs: the records of the five sources, the catalog, the first snapshot *)

WithKey(d, k, v, present) == IF present THEN (k :> v) @@ d ELSE d

PosLine(st, ts, sku, weight) ==
    [dataset |-> "POS_Transactions", station_id |-> st, timestamp |-> ts,
     data |-> WithKey(WithKey([customer_id |-> "C1"], "sku", sku, sku # None),
                      "weight_g", weight, weight >= 0)]

RfidLine(st, ts, sku, location) ==
    [dataset |-> "RFID_data", station_id |-> st, timestamp |-> ts,
     data |-> WithKey([location |-> location], "sku", sku, sku # None)]

QueueLine(st, ts, count, dwell) ==
    [dataset |-> "Queue_monitor", station_id |-> st, timestamp |-> ts,
     data |-> WithKey(WithKey([source |-> "queue"], "customer_count", count, count >= 0),
                      "average_dwell_time", dwell, dwell >= 0)]

RecogLine(st, ts, predicted, accuracy) ==
    [dataset |-> "Product_recognism", station_id |-> st, timestamp |-> ts,
     data |-> WithKey([predicted_product |-> predicted], "accuracy", accuracy, accuracy >= 0)]

\* a snapshot names no station
SnapshotLine(ts, items) ==
    [dataset |-> "Current_inventory_data", timestamp |-> ts, data |-> items]

ProductRow(sku, cell) == [SKU |-> sku, weight |-> cell]

MaxLines == 3
MaxSales == 6

EmptyData ==
    [pos_transactions |-> <<>>, rfid_readings |-> <<>>, queue_monitoring |-> <<>>,
     product_recognition |-> <<>>, inventory_snapshots |-> <<>>, products_list |-> <<>>]

InitFrom(feeds, catalogs, inventories, availabilities) ==
    /\ mode \in {"batch", "stream"}
    /\ sources_available \in availabilities
    /\ outfile_opened = FALSE
    /\ unflushed = <<>>
    /\ lines \in feeds
    /\ products_csv \in catalogs
    /\ initial_inventory \in inventories
    /\ pc = "start"
    /\ data = EmptyData
    /\ all_detected_events = <<>>
    /\ emitted = <<>>
    /\ outfile = <<>>
    /\ inventory_levels = <<>>
    /\ last_rfid_reads = <<>>
    /\ last_product_recognition = <<>>
    /\ error_log = 0
    /\ next_line = 1
    /\ stream_data = <<>>
    /\ line_events = <<>>

\* a run whose input files and feed can be opened
InitWith(feeds, catalogs, inventories) == InitFrom(feeds, catalogs, inventories, {TRUE})

Catalog100 == <<ProductRow("A", <<"1", "0", "0">>)>>

Ledger100 == SnapshotLine(<<0, 0>>, <<<<"A", 100>>, <<"B", 100>>>>)

\* incidents of every rule but the inventory one, many of them at one timestamp
AggLines ==
    {PosLine("SCC1", ts, "A", 200) : ts \in {<<0, 0>>, <<2, 0>>}}
    \cup {PosLine("SCC1", <<0, 0>>, None, 200)}
    \cup {RfidLine("SCC1", <<0, 0>>, sku, "IN_SCAN_AREA") : sku \in {"A", "B"}}
    \cup {RfidLine("SCC1", <<2, 0>>, "A", "IN_SCAN_AREA")}
    \cup {QueueLine("SCC1", ts, 6, 301) : ts \in {<<0, 0>>, <<2, 0>>}}
    \cup {RecogLine("SCC1", <<0, 0>>, "B", 90)}

InitAgg == InitWith(BoundedSeq(AggLines, MaxLines), {Catalog100}, {Ledger100})

\* snapshots, sales before and after them, and a 120 s gap at the station
InvLines ==
    {SnapshotLine(<<2, 0>>, items) :
        items \in {<<<<"A", 90>>, <<"B", 90>>>>, <<<<"A", 95>>>>, <<<<"A", 10>>>>}}
    \cup {PosLine("SCC1", <<0, 0>>, "A", -1)}
    \cup {QueueLine("SCC1", ts, 0, -1) : ts \in {<<0, 0>>, <<2, 0>>}}

Sales(n) == [i \in 1..n |-> PosLine("SCC1", <<2, 1>>, "A", -1)]

InvFeeds ==
    {prefix \o Sales(n) : prefix \in BoundedSeq(InvLines, MaxLines), n \in 0..MaxSales}

InitInv == InitWith(InvFeeds, {Catalog100}, {Ledger100})

\* weights at and around both tolerance bands of a 100 g product
WeightLines ==
    {PosLine("SCC1", <<0, 0>>, "A", w) :
        w \in {-1, 0, 79, 80, 94, 95, 100, 105, 106, 120, 121}}
    \cup {PosLine("SCC1", <<0, 0>>, sku, w) : sku \in {"B", None}, w \in {0, 200}}

InitWeight ==
    InitWith(BoundedSeq(WeightLines, MaxLines - 1),
             {Catalog100, Catalog100 \o <<ProductRow("B", <<"x">>)>>}, {Ledger100})

\* queue samples at, below and above both thresholds, and without the fields
QueueLines ==
    {QueueLine(st, ts, count, -1) :
        st \in {"SCC1", "SCC2"}, ts \in {<<0, 0>>, <<0, 1>>}, count \in {-1, 5, 6}}
    \cup {QueueLine("SCC1", <<0, 0>>, count, dwell) : count \in {0, 7}, dwell \in {300, 301}}

InitQueue == InitWith(BoundedSeq(QueueLines, MaxLines - 1), {Catalog100}, {Ledger100})

\* a transaction at 0:10 and reads 10 s, 5 s and 4 s before and 11 s after it,
\* one of them without a SKU
ScanLines ==
    {PosLine("SCC1", <<0, 10>>, sku, -1) : sku \in {"A", "B"}}
    \cup {RfidLine("SCC1", ts, "B", "IN_SCAN_AREA") :
            ts \in {<<0, 0>>, <<0, 5>>, <<0, 6>>, <<0, 21>>}}
    \cup {RfidLine("SCC1", <<0, 6>>, sku, "IN_SCAN_AREA") : sku \in {"A", None}}
    \cup {RfidLine("SCC2", <<0, 6>>, "B", "IN_SCAN_AREA"),
          RfidLine("SCC1", <<0, 6>>, "B", "EXIT")}

InitScan == InitWith(BoundedSeq(ScanLines, MaxLines), {Catalog100}, {Ledger100})

\* two stations, all sources, gaps of 119, 120, 121 and 150 seconds
CrashLines ==
    {QueueLine("SCC1", <<0, 0>>, 0, -1), QueueLine("SCC1", <<2, 0>>, 0, -1),
     PosLine("SCC1", <<0, 1>>, "A", -1), PosLine("SCC1", <<2, 1>>, "A", -1),
     RfidLine("SCC2", <<0, 1>>, "A", "EXIT"), RfidLine("SCC2", <<2, 0>>, "A", "EXIT"),
     RecogLine("SCC2", <<4, 30>>, "A", 90), RecogLine("SCC1", <<0, 0>>, "A", 90),
     SnapshotLine(<<2, 0>>, <<<<"A", 100>>>>)}

InitCrash == InitWith(BoundedSeq(CrashLines, MaxLines), {Catalog100}, {Ledger100})

SpecAgg == InitAgg /\ [][Next]_vars

SpecAggInv == (InitAgg \/ InitInv) /\ [][Next]_vars

SpecInv == InitInv /\ [][Next]_vars

SpecWeight == InitWeight /\ [][Next]_vars

SpecQueue == InitQueue /\ [][Next]_vars

SpecScan == InitScan /\ [][Next]_vars

SpecCrash == InitCrash /\ [][Next]_vars

-----------------------------------------------------------------------------
(* Vocabulary of the properties *)

BatchDone == mode = "batch" /\ pc = "done"

\* an incident without its identifier
Strip(e) == [timestamp |-> e.timestamp, event_data |-> e.event_data]

Stripped(s) == [i \in DOMAIN s |-> Strip(s[i])]

CountIn(s, x) == Cardinality({i \in DOMAIN s : Strip(s[i]) = x})

Named(s, name) == SelectSeq(s, LAMBDA e : e.event_data.event_name = name)

At(s, ts) == SelectSeq(s, LAMBDA e : e.timestamp = ts)

NumDigits(n) == IF n < 10 THEN 1 ELSE IF n < 100 THEN 2 ELSE IF n < 1000 THEN 3 ELSE 4

\* the identifier reads "E" and then the decimal digits of n, at least three
IsIdOf(id, n) ==
    /\ Len(id) >= 2 /\ id[1] = "E"
    /\ CanParse(Tail(id)) /\ ParseDigits(Tail(id)) = n
    /\ Len(id) = 1 + Max(3, NumDigits(n))

MaxIndex == 1100

\* C1 (pure part): the identifier of every index up to MaxIndex, the
\* four-digit ones included, is "E" and the index zero-padded to three digits.
IdsOfAllIndexes == \A n \in 0..MaxIndex : IsIdOf(FormatId(n), n)

\* C1: in the final batch log the incident at position i (from 0) carries the
\* identifier E<i>, zero-padded to at least three digits, so identifiers are
\* dense, zero-based, unique and increase with the position, whatever the
\* detectors had issued.
C1_DenseIds ==
    /\ IdsOfAllIndexes
    /\ BatchDone => \A i \in DOMAIN outfile : IsIdOf(outfile[i].event_id, i - 1)

\* C1 witness: a finished batch run with three or more incidents, two of
\* which left their detectors with the same identifier.
C1_Witness ==
    /\ BatchDone /\ Len(outfile) >= 3
    /\ \E i, j \in DOMAIN emitted : i < j /\ emitted[i].event_id = emitted[j].event_id

\* C2: the final batch log is sorted by timestamp, ascending.
C2_SortedByTimestamp ==
    BatchDone => \A i \in 1..(Len(outfile) - 1) :
        fromisoformat(outfile[i].timestamp) <= fromisoformat(outfile[i + 1].timestamp)

\* C2 witness: a finished batch run whose input files and whose detected
\* list were both out of timestamp order.
C2_Witness ==
    /\ BatchDone
    /\ \E i \in 1..(Len(emitted) - 1) :
        fromisoformat(emitted[i].timestamp) > fromisoformat(emitted[i + 1].timestamp)
    /\ \E i \in 1..(Len(lines) - 1) :
        fromisoformat(lines[i].timestamp) > fromisoformat(lines[i + 1].timestamp)

RuleNames ==
    {"Scanner Avoidance", "Barcode Switching", "Weight Discrepancies", "Long Queue Length",
     "Long Wait Time", "Inventory Discrepancy", "Unexpected Systems Crash", "Succes Operation"}

\* the order of the table of the specification
TableRank(name) ==
    CASE name = "Scanner Avoidance" -> 1
      [] name = "Barcode Switching" -> 2
      [] name = "Weight Discrepancies" -> 3
      [] name = "Long Queue Length" -> 4
      [] name = "Long Wait Time" -> 5
      [] name = "Inventory Discrepancy" -> 6
      [] name = "Unexpected Systems Crash" -> 7
      [] OTHER -> 8

\* the table with System Crash before Inventory Discrepancy
CallRank(name) ==
    CASE name = "Unexpected Systems Crash" -> 6
      [] name = "Inventory Discrepancy" -> 7
      [] OTHER -> TableRank(name)

\* incidents of one rule and one timestamp keep the order of their emission
KeepsEmissionOrder ==
    \A name \in RuleNames : \A e \in Range(emitted) :
        Stripped(At(Named(outfile, name), e.timestamp))
            = Stripped(At(Named(emitted, name), e.timestamp))

RanksAscend(Rank(_)) ==
    \A i, j \in DOMAIN outfile :
        (i < j /\ outfile[i].timestamp = outfile[j].timestamp)
            => Rank(outfile[i].event_data.event_name) <= Rank(outfile[j].event_data.event_name)

C3_TiesAcrossRules ==
    /\ BatchDone
    /\ \E ts \in {outfile[i].timestamp : i \in DOMAIN outfile} :
        Cardinality({e.event_data.event_name : e \in Range(At(outfile, ts))}) >= 3

\* the file a run with the given set order writes
BatchLog(d, order) == ReassignIds(SortEvents(DetectAll(d, order)))

\* C4: two batch runs on the same input write the same log: the log of a
\* finished run is the log of every run on this input, whichever order its
\* process iterates sets in.
C4_Deterministic == BatchDone => \A order \in HashOrders : outfile = BatchLog(data, order)

\* C5: the final batch log holds exactly the incidents the rules returned,
\* each as often as returned and with its timestamp and event_data unchanged.
C5_SameIncidents ==
    BatchDone =>
        /\ Len(outfile) = Len(emitted)
        /\ \A e \in Range(emitted) \cup Range(outfile) :
            CountIn(outfile, Strip(e)) = CountIn(emitted, Strip(e))

\* C5 witness: a finished batch run that returned the same incident twice
\* and whose log is in another order than the rules returned.
C5_Witness ==
    /\ BatchDone
    /\ \E i, j \in DOMAIN emitted : i < j /\ Strip(emitted[i]) = Strip(emitted[j])
    /\ Stripped(outfile) # Stripped(emitted)

StreamProcessed == mode = "stream" /\ pc = "running" /\ next_line > 1

IsPos(l) == l.dataset = "POS_Transactions"

IsRfid(l) == l.dataset = "RFID_data"

IsQueue(l) == l.dataset = "Queue_monitor"

IsSnapshot(l) == l.dataset = "Current_inventory_data"

HasStation(l) ==
    l.dataset \in {"POS_Transactions", "RFID_data", "Queue_monitor", "Product_recognism"}

HowMany(s, Test(_)) == Cardinality({i \in DOMAIN s : Test(s[i])})

\* the rows of the catalog that give the SKU a weight
CatalogRows(sku) ==
    {i \in DOMAIN products_csv :
        products_csv[i].SKU = sku /\ CanParse(products_csv[i].weight)}

InCatalog(sku) == CatalogRows(sku) # {}

ExpectedWeight(sku) ==
    ParseDigits(products_csv[CHOOSE i \in CatalogRows(sku) :
                                \A j \in CatalogRows(sku) : j <= i].weight)

\* strictly outside [expected * (1 - tol), expected * (1 + tol)], tol in percent
OutsideBand(w, expected, tol) ==
    100 * w < (100 - tol) * expected \/ 100 * w > (100 + tol) * expected

WeightIncident(l) ==
    [timestamp |-> l.timestamp,
     event_data |-> [event_name |-> "Weight Discrepancies",
                     station_id |-> l.station_id,
                     customer_id |-> Get(l.data, "customer_id"),
                     product_sku |-> l.data.sku,
                     expected_weight |-> ExpectedWeight(l.data.sku),
                     actual_weight |-> l.data.weight_g]]

Weighed(l) == IsPos(l) /\ Has(l.data, "weight_g") /\ InCatalog(Get(l.data, "sku"))

BatchTolerance == 20
StreamTolerance == 5

WeightRuleBatch(Covered(_)) ==
    BatchDone => \A l \in Range(lines) :
        (Weighed(l) /\ Covered(l)) =>
            CountIn(outfile, WeightIncident(l))
                = IF OutsideBand(l.data.weight_g, ExpectedWeight(l.data.sku), BatchTolerance)
                  THEN HowMany(lines, LAMBDA x : x = l) ELSE 0

WeightRuleStream ==
    (StreamProcessed /\ Weighed(stream_data)) =>
        Stripped(Named(line_events, "Weight Discrepancies"))
            = IF OutsideBand(stream_data.data.weight_g,
                             ExpectedWeight(stream_data.data.sku), StreamTolerance)
              THEN <<WeightIncident(stream_data)>> ELSE <<>>

AnyWeight(l) == TRUE

NonZeroWeight(l) == l.data.weight_g # 0

\* C6: in batch and in streaming mode a POS transaction with a catalog SKU
\* and a weight yields one Weight Discrepancy incident when the weight is
\* strictly outside the tolerance band around the catalog weight and none
\* otherwise, for every weight, 0 included.
C6_WeightBand == WeightRuleBatch(AnyWeight) /\ WeightRuleStream

\* What holds of C6: the streaming rule for every weight, the batch rule for
\* every weight but 0.
C6_WeightBandButZero == WeightRuleBatch(NonZeroWeight) /\ WeightRuleStream

LongQueueIncident(l) ==
    [timestamp |-> l.timestamp,
     event_data |-> [event_name |-> "Long Queue Length",
                     station_id |-> l.station_id,
                     num_of_customers |-> l.data.customer_count]]

Counted(l) == IsQueue(l) /\ Has(l.data, "customer_count")

\* C7: in batch and in streaming mode a queue sample yields one Long Queue
\* incident with its station_id, timestamp and customer_count when the count
\* is above 5, and none when the count is 5 or less or absent.
C7_LongQueue ==
    /\ BatchDone =>
        /\ \A l \in Range(lines) : Counted(l) =>
            CountIn(outfile, LongQueueIncident(l))
                = IF l.data.customer_count > 5
                  THEN HowMany(lines, LAMBDA x : Counted(x)
                                    /\ LongQueueIncident(x) = LongQueueIncident(l))
                  ELSE 0
        /\ Len(Named(outfile, "Long Queue Length"))
                = HowMany(lines, LAMBDA x : Counted(x) /\ x.data.customer_count > 5)
    /\ (StreamProcessed /\ IsQueue(stream_data)) =>
        Stripped(Named(line_events, "Long Queue Length"))
            = IF Counted(stream_data) /\ stream_data.data.customer_count > 5
              THEN <<LongQueueIncident(stream_data)>> ELSE <<>>

\* C7 witness: a finished batch run over a sample of 5 and a sample of 6,
\* with one Long Queue incident.
C7_Witness ==
    /\ BatchDone
    /\ \E l \in Range(lines) : Counted(l) /\ l.data.customer_count = 5
    /\ \E l \in Range(lines) : Counted(l) /\ l.data.customer_count = 6
    /\ Len(Named(outfile, "Long Queue Length")) = 1

\* C7 second witness: the streaming engine has just reported a sample of 6.
C7_StreamWitness ==
    /\ StreamProcessed /\ Counted(stream_data) /\ stream_data.data.customer_count = 6
    /\ Len(line_events) = 1

ScannerAvoidanceIncident(pos, sku) ==
    [timestamp |-> pos.timestamp,
     event_data |-> [event_name |-> "Scanner Avoidance",
                     station_id |-> pos.station_id,
                     customer_id |-> Get(pos.data, "customer_id"),
                     product_sku |-> sku]]

Seconds(l) == fromisoformat(l.timestamp)

\* an RFID read of the SKU at the station of the transaction, within w seconds
ReadNear(read, pos, sku, w) ==
    /\ IsRfid(read) /\ read.station_id = pos.station_id
    /\ Get(read.data, "sku") = sku
    /\ Abs(Seconds(read) - Seconds(pos)) <= w

InScanArea(read) == Get(read.data, "location") = "IN_SCAN_AREA"

\* the feed before the line processed last
Earlier == SubSeq(lines, 1, next_line - 2)

\* the latest IN_SCAN_AREA read of the station in the feed so far, if any
LastScanRead(st) ==
    LET reads == SelectSeq(Earlier, LAMBDA l : IsRfid(l) /\ InScanArea(l) /\ l.station_id = st)
    IN  IF reads = <<>> THEN <<>> ELSE <<reads[Len(reads)]>>

\* C8 as stated: a POS transaction for SKU s at a station with no RFID read
\* of s at that station within the window (10 s in batch, 5 s in streaming)
\* yields one Scanner Avoidance incident for that station and SKU s.
C8_UnreadSkuReported ==
    /\ BatchDone => \A pos \in Range(lines) :
        (/\ IsPos(pos) /\ Has(pos.data, "sku")
         /\ ~\E read \in Range(lines) : ReadNear(read, pos, pos.data.sku, 10))
            => CountIn(outfile, ScannerAvoidanceIncident(pos, pos.data.sku))
                    = HowMany(lines, LAMBDA x : x = pos)
    /\ (/\ StreamProcessed /\ IsPos(stream_data) /\ Has(stream_data.data, "sku")
        /\ ~\E read \in Range(Earlier) : ReadNear(read, stream_data, stream_data.data.sku, 5))
            => Stripped(Named(line_events, "Scanner Avoidance"))
                    = <<ScannerAvoidanceIncident(stream_data, stream_data.data.sku)>>

\* the transactions of the batch input that leave sku unscanned: same
\* timestamp, station and customer as pos, another SKU, and an IN_SCAN_AREA
\* read of sku at the station within 10 s
LeavesUnscanned(x, pos, sku) ==
    /\ IsPos(x) /\ x.timestamp = pos.timestamp /\ x.station_id = pos.station_id
    /\ Get(x.data, "customer_id") = Get(pos.data, "customer_id")
    /\ Get(x.data, "sku") # sku
    /\ \E read \in Range(lines) : InScanArea(read) /\ ReadNear(read, x, sku, 10)

\* C8 amended: a POS transaction for SKU s at station st yields Scanner
\* Avoidance incidents for the SKUs read and not scanned, never for s. Batch:
\* one incident with station st and product_sku r for each distinct sku value
\* r other than s among the IN_SCAN_AREA reads at st within 10 s (inclusive)
\* of the transaction, and no other. Streaming: one incident with product_sku
\* r when the latest IN_SCAN_AREA read received for st has a non-empty SKU r
\* other than s and a timestamp less than 5 s before the transaction's or
\* after it, and none otherwise. With no read at st there is no incident.
C8_ReadSkuReported ==
    /\ BatchDone =>
        /\ \A pos \in Range(lines) : \A sku \in SkuValues :
            IsPos(pos) =>
                CountIn(outfile, ScannerAvoidanceIncident(pos, sku))
                    = HowMany(lines, LAMBDA x : LeavesUnscanned(x, pos, sku))
        /\ \A e \in Range(Named(outfile, "Scanner Avoidance")) :
            \E pos \in Range(lines) :
                IsPos(pos) /\ Strip(e) = ScannerAvoidanceIncident(pos, e.event_data.product_sku)
    /\ (StreamProcessed /\ IsPos(stream_data)) =>
        LET last == LastScanRead(stream_data.station_id)
            fires == /\ last # <<>>
                     /\ Truthy(Get(last[1].data, "sku"))
                     /\ Get(last[1].data, "sku") # Get(stream_data.data, "sku")
                     /\ Seconds(stream_data) - Seconds(last[1]) < 5
        IN  Stripped(Named(line_events, "Scanner Avoidance"))
                = IF fires
                  THEN <<ScannerAvoidanceIncident(stream_data, last[1].data.sku)>>
                  ELSE <<>>

\* C8 witness: a finished batch run over a transaction for A with a read of B
\* in its window and no read of A, whose log holds one incident, for B.
C8_Witness ==
    /\ BatchDone
    /\ \E pos \in Range(lines) :
        /\ IsPos(pos) /\ Get(pos.data, "sku") = "A"
        /\ \E read \in Range(lines) : InScanArea(read) /\ ReadNear(read, pos, "B", 10)
        /\ ~\E read \in Range(lines) : ReadNear(read, pos, "A", 10)
        /\ CountIn(outfile, ScannerAvoidanceIncident(pos, "B")) = 1
        /\ Len(Named(outfile, "Scanner Avoidance")) = 1

\* C8 second witness: the streaming engine has just reported a read SKU.
C8_StreamWitness ==
    /\ StreamProcessed /\ IsPos(stream_data)
    /\ Len(Named(line_events, "Scanner Avoidance")) = 1

\* the events that carry a station: the four merged streams
StationLines == SelectSeq(lines, HasStation)

TimesAt(st) == {Seconds(l) : l \in {x \in Range(StationLines) : x.station_id = st}}

\* two event times of a station with no event of the station in between
ConsecutiveAt(st, t1, t2) ==
    /\ t1 \in TimesAt(st) /\ t2 \in TimesAt(st) /\ t1 < t2
    /\ ~\E t \in TimesAt(st) : t1 < t /\ t < t2

CrashIncident(st, ts, gap) ==
    [timestamp |-> ts,
     event_data |-> [event_name |-> "Unexpected Systems Crash",
                     station_id |-> st,
                     duration_seconds |-> gap]]

\* C9: for every station and every two consecutive events of its merged,
\* timestamp-sorted stream there is one System Crash incident (that station,
\* the gap as duration_seconds, the later event's timestamp) when the gap is
\* 120 s or more and none when it is less; there are no other System Crash
\* incidents, whatever the events of other stations.
C9_CrashGaps ==
    BatchDone =>
        /\ \A later \in Range(StationLines) : \A t1 \in TimesAt(later.station_id) :
            ConsecutiveAt(later.station_id, t1, Seconds(later)) =>
                CountIn(outfile, CrashIncident(later.station_id, later.timestamp,
                                               Seconds(later) - t1))
                    = IF Seconds(later) - t1 >= 120 THEN 1 ELSE 0
        /\ Len(Named(outfile, "Unexpected Systems Crash"))
            = Cardinality({<<l.station_id, Seconds(l)>> : l \in
                {x \in Range(StationLines) : \E t1 \in TimesAt(x.station_id) :
                    /\ ConsecutiveAt(x.station_id, t1, Seconds(x))
                    /\ Seconds(x) - t1 >= 120}})

\* C9 witness: a finished batch run with a System Crash incident of 150 s at
\* SCC2 while an event of SCC1 lies inside the gap.
C9_Witness ==
    /\ BatchDone
    /\ CountIn(outfile, CrashIncident("SCC2", <<4, 30>>, 150)) = 1
    /\ \E l \in Range(StationLines) :
        l.station_id = "SCC1" /\ 120 < Seconds(l) /\ Seconds(l) < 270

\* C9 second witness: a gap of exactly 120 s is reported.
C9_ExactGap ==
    /\ BatchDone
    /\ CountIn(outfile, CrashIncident("SCC1", <<2, 0>>, 120)) = 1

InventoryIncident(ts, sku, expected, actual) ==
    [timestamp |-> ts,
     event_data |-> [event_name |-> "Inventory Discrepancy",
                     SKU |-> sku,
                     Expected_Inventory |-> expected,
                     Actual_Inventory |-> actual]]

AboutSku(s, sku) ==
    SelectSeq(Named(s, "Inventory Discrepancy"), LAMBDA e : e.event_data.SKU = sku)

\* the step that processes a snapshot in streaming mode
SnapshotStep ==
    /\ mode = "stream" /\ pc = "running" /\ next_line' = next_line + 1
    /\ IsSnapshot(stream_data')

\* C10: when the streaming engine processes a snapshot, every tracked SKU
\* whose count in the snapshot differs from the ledger's by more than 5 gets
\* one Inventory Discrepancy incident (Expected_Inventory the ledger count
\* before, Actual_Inventory the snapshot count) and its ledger count becomes
\* the snapshot count; the same snapshot arriving next yields no further
\* incident for a SKU just reported.
C10_OneShot ==
    [][SnapshotStep =>
        /\ \A i \in DOMAIN stream_data'.data :
            LET sku == stream_data'.data[i][1]
                actual == stream_data'.data[i][2]
            IN  (sku \in DOMAIN inventory_levels /\ Abs(inventory_levels[sku] - actual) > 5)
                    => /\ Stripped(AboutSku(line_events', sku))
                            = <<InventoryIncident(stream_data'.timestamp, sku,
                                                  inventory_levels[sku], actual)>>
                       /\ inventory_levels'[sku] = actual
        /\ (next_line > 1 /\ stream_data = stream_data') =>
            \A e \in Range(Named(line_events, "Inventory Discrepancy")) :
                AboutSku(line_events', e.event_data.SKU) = <<>>
      ]_vars

\* What holds of C10: the first diverging SKU of the snapshot, in the order
\* of the snapshot, is reported and resynced, and the same snapshot arriving
\* next does not report it again.
C10_FirstDivergenceOnly ==
    [][SnapshotStep =>
        /\ LET hit == FirstDiscrepancy(stream_data'.data, inventory_levels)
           IN  IF hit = <<>> THEN line_events' = <<>> /\ inventory_levels' = inventory_levels
               ELSE /\ Stripped(line_events')
                        = <<InventoryIncident(stream_data'.timestamp, hit[1][1],
                                              inventory_levels[hit[1][1]], hit[1][2])>>
                    /\ inventory_levels' = [inventory_levels EXCEPT ![hit[1][1]] = hit[1][2]]
        /\ (next_line > 1 /\ stream_data = stream_data') =>
            \A e \in Range(Named(line_events, "Inventory Discrepancy")) :
                AboutSku(line_events', e.event_data.SKU) = <<>>
      ]_vars

\* C11: once the streaming engine has processed a snapshot, the ledger holds,
\* for every tracked SKU the snapshot lists, the quantity of the snapshot,
\* whether or not an incident fired.
C11_LedgerFollowsSnapshot ==
    (StreamProcessed /\ IsSnapshot(stream_data)) =>
        \A i \in DOMAIN stream_data.data :
            stream_data.data[i][1] \in DOMAIN inventory_levels =>
                inventory_levels[stream_data.data[i][1]] = stream_data.data[i][2]

\* What holds of C11: a listed, tracked SKU ends at the snapshot's quantity or
\* at the quantity it had, never anywhere else.
C11_ResyncedOrUntouched ==
    [][SnapshotStep =>
        \A i \in DOMAIN stream_data'.data :
            LET sku == stream_data'.data[i][1]
            IN  sku \in DOMAIN inventory_levels =>
                    inventory_levels'[sku] \in {stream_data'.data[i][2], inventory_levels[sku]}
      ]_vars

\* a ledger and snapshots with one item or none in stock
LedgerLow == SnapshotLine(<<0, 0>>, <<<<"A", 1>>, <<"B", 0>>>>)

LowLines ==
    {PosLine("SCC1", <<0, 1>>, sku, -1) : sku \in SkuValues}
    \cup {SnapshotLine(<<0, 0>>, items) :
            items \in {<<<<"A", 1>>, <<"B", 0>>>>, <<<<"A", 7>>>>}}

InitLow == InitWith(BoundedSeq(LowLines, MaxLines), {Catalog100}, {LedgerLow})

SpecLow == InitLow /\ [][Next]_vars

\* expected_inventory[sku] of the batch rule once the transactions are applied
BatchLedger(item) ==
    item[2] - SoldAfter(data.pos_transactions, data.inventory_snapshots[1], item[1])

\* C12: no tracked quantity is ever negative, in the streaming ledger and in
\* the expected inventory the batch rule computes from its first snapshot.
C12_NeverNegative ==
    /\ mode = "stream" => \A sku \in DOMAIN inventory_levels : inventory_levels[sku] >= 0
    /\ (BatchDone /\ data.inventory_snapshots # <<>>) =>
        \A i \in DOMAIN ItemsOf(data.inventory_snapshots[1]) :
            BatchLedger(ItemsOf(data.inventory_snapshots[1])[i]) >= 0

\* What holds of C12: a sale of a SKU the ledger does not track changes nothing.
C12_UntrackedSaleIsNoOp ==
    [][(/\ mode = "stream" /\ pc = "running" /\ next_line' = next_line + 1
        /\ IsPos(stream_data')
        /\ Get(stream_data'.data, "sku") \notin DOMAIN inventory_levels)
            => inventory_levels' = inventory_levels]_vars

\* a transaction at 0:10 and recognitions around it: 5 s and 4 s before,
\* 6 s before, at another station, with low or no accuracy, of the scanned SKU
RecogLines ==
    {PosLine("SCC1", <<0, 10>>, sku, -1) : sku \in {"A", None}}
    \cup {RecogLine("SCC1", <<0, 5>>, "B", 90), RecogLine("SCC1", <<0, 4>>, "C", 90),
          RecogLine("SCC2", <<0, 6>>, "C", 90)}
    \cup {RecogLine("SCC1", <<0, 6>>, predicted, 90) : predicted \in {"A", "B", "C"}}
    \cup {RecogLine("SCC1", <<0, 6>>, "C", accuracy) : accuracy \in {-1, 50, 51}}

InitRecog == InitWith(BoundedSeq(RecogLines, MaxLines), {Catalog100}, {Ledger100})

SpecRecog == InitRecog /\ [][Next]_vars

SpecWindow == (InitScan \/ InitRecog) /\ [][Next]_vars

IsRecog(l) == l.dataset = "Product_recognism"

SuccessIncident(pos) ==
    [timestamp |-> pos.timestamp,
     event_data |-> [event_name |-> "Succes Operation",
                     station_id |-> pos.station_id,
                     customer_id |-> Get(pos.data, "customer_id"),
                     product_sku |-> Get(pos.data, "sku")]]

\* the Barcode Switching incidents of a log that are about a transaction
SwitchesAbout(s, pos) ==
    SelectSeq(Named(s, "Barcode Switching"),
        LAMBDA e : /\ e.timestamp = pos.timestamp
                   /\ e.event_data.station_id = pos.station_id
                   /\ e.event_data.customer_id = Get(pos.data, "customer_id")
                   /\ e.event_data.scanned_sku = Get(pos.data, "sku"))

\* a recognition the batch rule may use against a transaction, up to the window
Contradicts(rec, pos) ==
    /\ IsRecog(rec) /\ rec.station_id = pos.station_id
    /\ GetOr(rec.data, "accuracy", 0) > 50
    /\ Truthy(Get(rec.data, "predicted_product"))
    /\ Get(rec.data, "predicted_product") # Get(pos.data, "sku")

\* the latest recognition of the station in the feed so far, if any
LastRecognition(st) ==
    LET recs == SelectSeq(Earlier, LAMBDA l : IsRecog(l) /\ l.station_id = st)
    IN  IF recs = <<>> THEN <<>> ELSE <<recs[Len(recs)]>>

C13_Batch ==
    BatchDone => \A pos \in Range(lines) : IsPos(pos) =>
        /\ \A read \in Range(lines) :
            (/\ IsRfid(read) /\ read.station_id = pos.station_id
             /\ Abs(Seconds(read) - Seconds(pos)) = 10)
                => /\ (InScanArea(read) /\ Get(read.data, "sku") # Get(pos.data, "sku"))
                        => CountIn(outfile,
                                ScannerAvoidanceIncident(pos, Get(read.data, "sku"))) >= 1
                   /\ Get(read.data, "sku") = Get(pos.data, "sku")
                        => CountIn(outfile, SuccessIncident(pos)) >= 1
        /\ \A rec \in Range(lines) :
            (Contradicts(rec, pos) /\ Abs(Seconds(rec) - Seconds(pos)) = 5)
                => SwitchesAbout(outfile, pos) # <<>>

C13_Stream ==
    (StreamProcessed /\ IsPos(stream_data)) =>
        /\ LET last == LastScanRead(stream_data.station_id)
           IN  (/\ last # <<>>
                /\ Abs(Seconds(stream_data) - Seconds(last[1])) = 5
                /\ Truthy(Get(last[1].data, "sku"))
                /\ Get(last[1].data, "sku") # Get(stream_data.data, "sku"))
                    => Named(line_events, "Scanner Avoidance") # <<>>
        /\ LET last == LastRecognition(stream_data.station_id)
           IN  (/\ last # <<>>
                /\ Abs(Seconds(stream_data) - Seconds(last[1])) = 5
                /\ Truthy(Get(last[1].data, "predicted_product"))
                /\ Get(last[1].data, "predicted_product") # Get(stream_data.data, "sku"))
                    => Named(line_events, "Barcode Switching") # <<>>

\* C13: a read or a recognition at the station of a transaction whose
\* timestamp differs from the transaction's by exactly the window (10 s for
\* Scanner Avoidance and Success Operation and 5 s for Barcode Switching in
\* batch, 5 s in streaming) counts as inside the window: the incident it
\* calls for is there.
C13_InclusiveWindows == C13_Batch /\ C13_Stream

\* What holds of C13: the batch windows are inclusive.
C13_BatchInclusive == C13_Batch

\* a batch run that reported a read 10 s away and a recognition 5 s away
C13_BatchBoundaryReached ==
    /\ BatchDone
    /\ \/ \E pos \in Range(lines), rec \in Range(lines) :
            /\ IsPos(pos) /\ Contradicts(rec, pos)
            /\ Abs(Seconds(rec) - Seconds(pos)) = 5 /\ Len(lines) = 2
       \/ \E pos \in Range(lines), read \in Range(lines) :
            /\ IsPos(pos) /\ IsRfid(read) /\ InScanArea(read)
            /\ Abs(Seconds(read) - Seconds(pos)) = 10 /\ Len(lines) = 2
            /\ Len(outfile) = 1

\* transactions and reads in one window, with and without a sku
NoSkuLines ==
    {PosLine("SCC1", <<0, 10>>, sku, -1) : sku \in {"A", None}}
    \cup {RfidLine("SCC1", <<0, 6>>, sku, "IN_SCAN_AREA") : sku \in {"A", None}}

InitNoSku == InitWith(BoundedSeq(NoSkuLines, MaxLines), {Catalog100}, {Ledger100})

SpecNoSku == InitNoSku /\ [][Next]_vars

C14_NoNullAvoidance ==
    (BatchDone \/ mode = "stream") =>
        \A e \in Range(Named(outfile, "Scanner Avoidance")) : e.event_data.product_sku # None

C14_NoNullSuccess ==
    (BatchDone \/ mode = "stream") =>
        \A e \in Range(Named(outfile, "Succes Operation")) : e.event_data.product_sku # None

\* C14: a record without a sku is never correlated: no Scanner Avoidance
\* incident and no Success Operation incident carries an absent product_sku,
\* in batch and in streaming.
C14_NoSkuNoCorrelation == C14_NoNullAvoidance /\ C14_NoNullSuccess

\* What holds of C14: the streaming engine never reports an absent SKU.
C14_StreamNoSku ==
    mode = "stream" =>
        \A e \in Range(Named(outfile, "Scanner Avoidance")) : Truthy(e.event_data.product_sku)

\* the positions of the input whose recognition qualifies against a
\* transaction: same station, accuracy above 0.5, within 5 s, a non-empty
\* prediction other than the scanned SKU
Qualifying(pos) ==
    {i \in DOMAIN lines :
        Contradicts(lines[i], pos) /\ Abs(Seconds(lines[i]) - Seconds(pos)) <= 5}

\* position i comes before position j in the recognition stream the rule
\* reads: by timestamp, and in the order of the file at equal timestamps
ComesFirst(i, j) ==
    \/ Seconds(lines[i]) < Seconds(lines[j])
    \/ Seconds(lines[i]) = Seconds(lines[j]) /\ i <= j

BarcodeIncident(pos, actual_sku) ==
    [timestamp |-> pos.timestamp,
     event_data |-> [event_name |-> "Barcode Switching",
                     station_id |-> pos.station_id,
                     customer_id |-> Get(pos.data, "customer_id"),
                     actual_sku |-> actual_sku,
                     scanned_sku |-> Get(pos.data, "sku")]]

\* C15: in batch every POS transaction yields at most one Barcode Switching
\* incident: none when no recognition qualifies, and otherwise one whose
\* actual_sku is the prediction of the first qualifying recognition of the
\* recognition stream (ordered by timestamp, file order at equal timestamps)
\* and whose scanned_sku is the SKU of the transaction.
C15_FirstMatchWins ==
    BatchDone =>
        /\ \A pos \in Range(lines) : IsPos(pos) =>
            LET copies == Cardinality({i \in DOMAIN lines : lines[i] = pos})
            IN  IF Qualifying(pos) = {}
                THEN SwitchesAbout(outfile, pos) = <<>>
                ELSE LET first == CHOOSE i \in Qualifying(pos) :
                                      \A j \in Qualifying(pos) : ComesFirst(i, j)
                     IN  /\ Len(SwitchesAbout(outfile, pos)) = copies
                         /\ \A e \in Range(SwitchesAbout(outfile, pos)) :
                                Strip(e) = BarcodeIncident(pos,
                                                lines[first].data.predicted_product)
        /\ \A e \in Range(Named(outfile, "Barcode Switching")) :
            \E pos \in Range(lines) : IsPos(pos) /\ e \in Range(SwitchesAbout(outfile, pos))

\* C15 witness: a finished batch run over a transaction for A and two
\* qualifying recognitions, C at 0:06 ahead of B at 0:05 in the file, with
\* one Barcode Switching incident, for B.
C15_Witness ==
    /\ BatchDone
    /\ lines = <<RecogLine("SCC1", <<0, 6>>, "C", 90), RecogLine("SCC1", <<0, 5>>, "B", 90),
                 PosLine("SCC1", <<0, 10>>, "A", -1)>>
    /\ Stripped(outfile) = <<BarcodeIncident(lines[3], "B")>>

\* C15 second witness: two qualifying recognitions at one timestamp, the
\* first of the file wins.
C15_TieWitness ==
    /\ BatchDone
    /\ lines = <<RecogLine("SCC1", <<0, 6>>, "C", 90), RecogLine("SCC1", <<0, 6>>, "B", 90),
                 PosLine("SCC1", <<0, 10>>, "A", -1)>>
    /\ Stripped(outfile) = <<BarcodeIncident(lines[3], "C")>>

\* the streaming engine run over a feed from its start: the state it ends in
\* and what it wrote
RECURSIVE StreamRun(_)
StreamRun(feed) ==
    IF feed = <<>>
    THEN [inv |-> LedgerOf(ItemsOf(initial_inventory)), rfid |-> <<>>, recog |-> <<>>,
          out |-> <<>>, errs |-> 0]
    ELSE LET before == StreamRun(SubSeq(feed, 1, Len(feed) - 1))
             r == ProcessRecord(feed[Len(feed)], before.inv, before.rfid, before.recog,
                                load_csv_data(products_csv))
         IN  [inv |-> r.inv, rfid |-> r.rfid, recog |-> r.recog,
              out |-> before.out \o r.out, errs |-> before.errs + r.errs]

\* not a recognition with accuracy 0.5 or less, or with none
Confident(l) == IsRecog(l) => GetOr(l.data, "accuracy", 0) > 50

SwitchesOf(s) == Range(Stripped(Named(s, "Barcode Switching")))

C16_Batch ==
    BatchDone =>
        \A order \in HashOrders :
            SwitchesOf(outfile)
                = SwitchesOf(BatchLog(load_all_data(SelectSeq(lines, Confident), products_csv),
                                      order))

C16_Stream ==
    (mode = "stream" /\ pc = "done") =>
        SwitchesOf(outfile) = SwitchesOf(StreamRun(SelectSeq(lines, Confident)).out)

\* C16: in batch and in streaming, taking the recognitions with accuracy
\* 0.5 or less or with no accuracy out of the input leaves the set of Barcode
\* Switching incidents as it is.
C16_LowAccuracyIgnored == C16_Batch /\ C16_Stream

\* What holds of C16: the batch rule ignores them.
C16_BatchIgnores == C16_Batch

\* a batch run with a low-accuracy recognition in the window of a transaction
C16_BatchReached ==
    /\ BatchDone
    /\ \E pos \in Range(lines), rec \in Range(lines) :
        /\ IsPos(pos) /\ IsRecog(rec) /\ ~Confident(rec)
        /\ rec.station_id = pos.station_id /\ Abs(Seconds(rec) - Seconds(pos)) <= 5
    /\ SwitchesOf(outfile) # {}

\* the run of the model is the run of StreamRun on what was read
StreamRunAgrees ==
    (mode = "stream" /\ pc \in {"running", "done"}) =>
        LET r == StreamRun(SubSeq(lines, 1, next_line - 1))
        IN  /\ r.out = outfile /\ r.inv = inventory_levels
            /\ r.rfid = last_rfid_reads /\ r.recog = last_product_recognition
            /\ r.errs = error_log

-----------------------------------------------------------------------------
(* C17: the streaming sink *)

IsPrefixOf(s, t) == Len(s) <= Len(t) /\ SubSeq(t, 1, Len(s)) = s

\* the incidents detected in the first n records of the feed, in detection order
DetectedSoFar(n) == StreamRun(SubSeq(lines, 1, n)).out

\* C17: every step of the streaming run leaves on disk exactly the incidents
\* detected in the records processed so far, in detection order, with nothing
\* waiting in a buffer, and keeps every line that was on disk before the step.
C17_AppendOnlyFlushed ==
    [][(mode = "stream" /\ pc = "running") =>
        /\ IsPrefixOf(outfile, outfile')
        /\ unflushed' = <<>>
        /\ outfile' = DetectedSoFar(next_line' - 1)]_vars

\* a record has just added incidents below the lines of an earlier record
C17_Witness ==
    /\ StreamProcessed /\ next_line > 2
    /\ line_events # <<>>
    /\ Len(outfile) > Len(line_events)
    /\ unflushed = <<>>

-----------------------------------------------------------------------------
(* C18: a streamed line that is no JSON *)

\* a line json.loads rejects
GarbledLine == [dataset |-> None, text |-> "{"]

\* a garbled line among records that fill and use the ledger and the tables
GarbledLines ==
    {GarbledLine,
     RfidLine("SCC1", <<0, 6>>, "B", "IN_SCAN_AREA"),
     RecogLine("SCC1", <<0, 6>>, "B", 90),
     PosLine("SCC1", <<0, 10>>, "A", 200),
     PosLine("SCC1", <<0, 10>>, "B", -1),
     QueueLine("SCC1", <<0, 10>>, 7, 301),
     SnapshotLine(<<0, 20>>, <<<<"A", 90>>, <<"B", 99>>>>)}

InitGarbled == InitWith(BoundedSeq(GarbledLines, MaxLines), {Catalog100}, {Ledger100})

SpecGarbled == InitGarbled /\ [][Next]_vars

\* the lines read so far
LinesRead == SubSeq(lines, 1, next_line - 1)

\* C18: at every point of a streaming run the incidents written, the ledger
\* and both per-station tables are those of the same run on the lines read so
\* far without the undecodable ones, and the error log holds one more entry
\* for each undecodable line read.
C18_GarbledLineDropped ==
    (mode = "stream" /\ pc \in {"running", "done"}) =>
        LET clean == StreamRun(SelectSeq(LinesRead, Decodes))
            dropped == Len(LinesRead) - Len(SelectSeq(LinesRead, Decodes))
        IN  /\ outfile = clean.out
            /\ inventory_levels = clean.inv
            /\ last_rfid_reads = clean.rfid
            /\ last_product_recognition = clean.recog
            /\ error_log = clean.errs + dropped

\* an undecodable line between a recognition and the sale it contradicts
C18_Witness ==
    /\ StreamProcessed /\ next_line = 4
    /\ IsRecog(lines[1]) /\ ~Decodes(lines[2]) /\ IsPos(lines[3])
    /\ Named(line_events, "Barcode Switching") # <<>>
    /\ error_log >= 1

-----------------------------------------------------------------------------
(* C19: records without timestamp or station_id *)

\* the record without one of its keys
Without(line, key) == [k \in DOMAIN line \ {key} |-> line[k]]

\* records of the station sources, whole and with a required field missing
MalformedLines ==
    {PosLine("SCC1", <<0, 10>>, "A", 200),
     RfidLine("SCC1", <<0, 6>>, "B", "IN_SCAN_AREA"),
     Without(PosLine("SCC1", <<0, 10>>, "A", 200), "station_id"),
     Without(PosLine("SCC1", <<0, 10>>, "A", 200), "timestamp"),
     Without(RfidLine("SCC1", <<0, 6>>, "B", "IN_SCAN_AREA"), "timestamp"),
     Without(QueueLine("SCC1", <<0, 10>>, 7, 301), "station_id"),
     Without(RecogLine("SCC1", <<0, 6>>, "B", 40), "station_id"),
     Without(RecogLine("SCC1", <<0, 6>>, "B", 90), "timestamp")}

InitMalformed == InitWith(BoundedSeq(MalformedLines, MaxLines), {Catalog100}, {Ledger100})

SpecMalformed == InitMalformed /\ [][Next]_vars

\* a snapshot names no station
WellFormed(l) == Has(l, "timestamp") /\ (IsSnapshot(l) \/ Has(l, "station_id"))

\* streaming: what was written and the running state are those of the run on
\* the well-formed records read so far
C19_Stream ==
    (mode = "stream" /\ pc \in {"running", "done"}) =>
        LET clean == StreamRun(SelectSeq(LinesRead, WellFormed))
        IN  /\ outfile = clean.out
            /\ inventory_levels = clean.inv
            /\ last_rfid_reads = clean.rfid
            /\ last_product_recognition = clean.recog

\* batch: the run ends with the log of the well-formed records
C19_Batch ==
    (mode = "batch" /\ pc # "start") =>
        /\ pc = "done"
        /\ \E order \in HashOrders :
            outfile = ReassignIds(SortEvents(DetectAll(
                        load_all_data(SelectSeq(lines, WellFormed), products_csv), order)))

\* C19: in streaming and in batch a record without timestamp or without
\* station_id yields no incident and changes no running state, and the run
\* goes on to the complete log of the other records.
C19_MalformedSkipped == C19_Stream /\ C19_Batch

\* What holds of C19: a streamed record that raises in a detector is logged and
\* the feed goes on; a batch run with a malformed record of a source it sorts
\* or correlates writes nothing.
C19_BatchStopsOrCompletes ==
    (mode = "batch" /\ pc # "start") =>
        IF RaisesInLoad(lines) \/ RaisesInDetection(load_all_data(lines, products_csv))
        THEN pc = "crashed" /\ outfile = <<>> /\ ~outfile_opened
        ELSE pc = "done"

\* a streamed sale without station_id has lowered the ledger and raised a
\* Weight Discrepancies incident
C19_StreamReached ==
    /\ StreamProcessed
    /\ IsPos(stream_data) /\ ~Has(stream_data, "station_id")
    /\ Named(line_events, "Weight Discrepancies") # <<>>
    /\ inventory_levels["A"] < 100

-----------------------------------------------------------------------------
(* C20: errors at startup *)

\* a catalog with no row
NoCatalog == <<>>

\* a first snapshot with no item
NoInventory == SnapshotLine(<<0, 0>>, <<>>)

StartupLines ==
    {PosLine("SCC1", <<0, 10>>, "A", 200),
     RfidLine("SCC1", <<0, 6>>, "B", "IN_SCAN_AREA"),
     QueueLine("SCC1", <<0, 10>>, 7, 301),
     SnapshotLine(<<0, 20>>, <<<<"A", 90>>>>)}

\* runs with and without a catalog, a first inventory, and sources that open
InitStartup ==
    InitFrom(BoundedSeq(StartupLines, MaxLines), {NoCatalog, Catalog100},
             {NoInventory, Ledger100}, BOOLEAN)

SpecStartup == InitStartup /\ [][Next]_vars

\* the run ended on an error at startup
FatalStartup == pc \in {"fatal", "refused"}

\* C20: a run that ended on a startup error has run no rule and has neither
\* created nor truncated the incident file.
C20_NoOutputOnFatal ==
    FatalStartup =>
        /\ ~outfile_opened
        /\ outfile = <<>> /\ emitted = <<>> /\ line_events = <<>>

\* What holds of C20: no rule runs, and a missing catalog, a missing first
\* inventory and, in batch, missing input files leave the incident file alone.
C20_LoadFailureLeavesNoFile ==
    FatalStartup =>
        /\ outfile = <<>> /\ emitted = <<>> /\ line_events = <<>>
        /\ (pc = "fatal" => ~outfile_opened)

\* the streaming run found catalog and inventory and was refused the connection
C20_RefusedReached ==
    /\ mode = "stream" /\ pc = "refused"
    /\ ~sources_available /\ outfile_opened

-----------------------------------------------------------------------------
(* C21: identifiers in the streaming log *)

StreamLog == mode = "stream" /\ pc \in {"running", "done"}

\* C21: in the streaming log the k-th incident carries the identifier of
\* k - 1, so identifiers are dense, zero-based and no two incidents share one.
C21_StreamDenseIds ==
    StreamLog =>
        /\ \A i \in DOMAIN outfile : IsIdOf(outfile[i].event_id, i - 1)
        /\ \A i, j \in DOMAIN outfile : i # j => outfile[i].event_id # outfile[j].event_id

\* the literal each streaming detector puts in its incident
StreamRuleId(name) ==
    CASE name = "Scanner Avoidance" -> <<"E", "0", "0", "1">>
      [] name = "Barcode Switching" -> <<"E", "0", "0", "2">>
      [] name = "Weight Discrepancies" -> <<"E", "0", "0", "3">>
      [] name = "Long Queue Length" -> <<"E", "0", "0", "5">>
      [] name = "Long Wait Time" -> <<"E", "0", "0", "6">>
      [] OTHER -> <<"E", "0", "0", "7">>

\* What holds of C21: the identifier of a streamed incident names its rule.
C21_IdNamesRule ==
    StreamLog =>
        \A i \in DOMAIN outfile :
            outfile[i].event_id = StreamRuleId(outfile[i].event_data.event_name)

\* two streamed incidents of one rule
C21_RepeatedIdReached ==
    /\ StreamLog
    /\ \E i, j \in DOMAIN outfile :
        i < j /\ outfile[i].event_data.event_name = outfile[j].event_data.event_name

-----------------------------------------------------------------------------
(* C22: Scanner Avoidance and Success Operation of one transaction *)

\* what the two batch rules emit for the transaction pos alone
AvoidancesFor(pos, order) == detect_scanner_avoidance(<<pos>>, data.rfid_readings, order)

SuccessesFor(pos) == detect_success_operations(<<pos>>, data.rfid_readings)

SkusReported(evs) == {evs[i].event_data.product_sku : i \in DOMAIN evs}

InLog(ev) == \E i \in DOMAIN outfile : Strip(outfile[i]) = Strip(ev)

\* C22: for every transaction of a finished batch run, every Scanner Avoidance
\* incident emitted for it names a SKU other than the scanned one, every
\* Success Operation incident emitted for it names the scanned one, so the two
\* rules never name the same SKU for it; all of these incidents are in the log.
C22_DisjointSkus ==
    BatchDone =>
        \A k \in DOMAIN data.pos_transactions : \A order \in HashOrders :
            LET pos == data.pos_transactions[k]
                avoided == AvoidancesFor(pos, order)
                succeeded == SuccessesFor(pos)
            IN  /\ Get(pos.data, "sku") \notin SkusReported(avoided)
                /\ SkusReported(succeeded) \subseteq {Get(pos.data, "sku")}
                /\ SkusReported(avoided) \cap SkusReported(succeeded) = {}
                /\ \A i \in DOMAIN avoided : InLog(avoided[i])
                /\ \A i \in DOMAIN succeeded : InLog(succeeded[i])

\* one transaction for which both rules fired
C22_Witness ==
    /\ BatchDone
    /\ \E k \in DOMAIN data.pos_transactions : \E order \in HashOrders :
        /\ AvoidancesFor(data.pos_transactions[k], order) # <<>>
        /\ SuccessesFor(data.pos_transactions[k]) # <<>>

-----------------------------------------------------------------------------
(* C23: batch Scanner Avoidance as a windowed set difference *)

\* the IN_SCAN_AREA reads of the input at the station of pos within the window
WindowReads(pos) ==
    {r \in Range(lines) :
        /\ IsRfid(r) /\ InScanArea(r) /\ r.station_id = pos.station_id
        /\ Abs(Seconds(r) - Seconds(pos)) <= ScannerAvoidanceWindow}

\* the SKUs those reads carry
WindowSkus(pos) == {r.data.sku : r \in {x \in WindowReads(pos) : Has(x.data, "sku")}}

\* the values of their sku field, None for a read without one
WindowSkuValues(pos) == {Get(r.data, "sku") : r \in WindowReads(pos)}

\* the rule emits for pos one incident for each member of skus and no other,
\* each with the timestamp, station and customer of pos, and all are in the log
AvoidsExactly(pos, skus) ==
    \A order \in HashOrders :
        LET avoided == AvoidancesFor(pos, order)
        IN  /\ Len(avoided) = Cardinality(skus)
            /\ SkusReported(avoided) = skus
            /\ \A i \in DOMAIN avoided :
                /\ Strip(avoided[i])
                        = ScannerAvoidanceIncident(pos, avoided[i].event_data.product_sku)
                /\ InLog(avoided[i])

\* every Scanner Avoidance incident of the log was emitted for a transaction
AvoidancesAccounted ==
    \A e \in Range(Named(outfile, "Scanner Avoidance")) :
        \E pos \in Range(lines) : \E order \in HashOrders :
            IsPos(pos) /\ \E i \in DOMAIN AvoidancesFor(pos, order) :
                Strip(AvoidancesFor(pos, order)[i]) = Strip(e)

\* C23: in a finished batch run the Scanner Avoidance incidents of every
\* transaction p are one per distinct SKU carried by an IN_SCAN_AREA read at
\* p's station within 10 s of p, but for the SKU p scanned, each with p's
\* timestamp, station and customer; nothing else yields such an incident.
C23_WindowedDifference ==
    BatchDone =>
        /\ \A pos \in Range(lines) :
            IsPos(pos) => AvoidsExactly(pos, WindowSkus(pos) \ {Get(pos.data, "sku")})
        /\ AvoidancesAccounted

\* What holds of C23: the same with a read that has no sku counted as a read
\* of the value null.
C23_DifferenceOfValues ==
    BatchDone =>
        /\ \A pos \in Range(lines) :
            IsPos(pos) => AvoidsExactly(pos, WindowSkuValues(pos) \ {Get(pos.data, "sku")})
        /\ AvoidancesAccounted

\* a transaction with two reads in its window, one of them without a sku
C23_NullReadReached ==
    /\ BatchDone
    /\ \E pos \in Range(lines) :
        /\ IsPos(pos)
        /\ None \in WindowSkuValues(pos) /\ WindowSkus(pos) # {}
        /\ CountIn(outfile, ScannerAvoidanceIncident(pos, None)) = 1

-----------------------------------------------------------------------------
(* C24: batch Success Operation *)

SpecSuccess == (InitScan \/ InitNoSku) /\ [][Next]_vars

\* the RFID reads of the input at the station of pos within the window
SuccessReads(pos) ==
    {r \in Range(lines) :
        /\ IsRfid(r) /\ r.station_id = pos.station_id
        /\ Abs(Seconds(r) - Seconds(pos)) <= SuccessWindow}

\* a read in the window carries the SKU the transaction scanned
ScanConfirmed(pos) ==
    /\ Has(pos.data, "sku")
    /\ \E r \in SuccessReads(pos) : Has(r.data, "sku") /\ r.data.sku = pos.data.sku

\* a read in the window has the same value of the sku field, None for none
ScanValueMatched(pos) ==
    \E r \in SuccessReads(pos) : Get(r.data, "sku") = Get(pos.data, "sku")

\* the rule emits for pos one incident if fires and none otherwise, with the
\* timestamp, station, customer and SKU of pos, and it is in the log
SucceedsExactly(pos, fires) ==
    LET succeeded == SuccessesFor(pos)
    IN  /\ Len(succeeded) = IF fires THEN 1 ELSE 0
        /\ \A i \in DOMAIN succeeded :
            Strip(succeeded[i]) = SuccessIncident(pos) /\ InLog(succeeded[i])

\* every Success Operation incident of the log was emitted for a transaction
SuccessesAccounted ==
    \A e \in Range(Named(outfile, "Succes Operation")) :
        \E pos \in Range(lines) : IsPos(pos) /\ Strip(e) = SuccessIncident(pos)
            /\ SuccessesFor(pos) # <<>>

\* C24: in a finished batch run every transaction has one Success Operation
\* incident if an RFID read at its station within 10 s (inclusive) carries the
\* SKU it scanned and none otherwise, however many reads match; the incident
\* has the transaction's timestamp, station, customer and SKU.
C24_OnePerConfirmedScan ==
    BatchDone =>
        /\ \A pos \in Range(lines) : IsPos(pos) => SucceedsExactly(pos, ScanConfirmed(pos))
        /\ SuccessesAccounted

\* What holds of C24: the same with an absent sku counted as the value null
\* on both sides.
C24_OnePerMatchedValue ==
    BatchDone =>
        /\ \A pos \in Range(lines) : IsPos(pos) => SucceedsExactly(pos, ScanValueMatched(pos))
        /\ SuccessesAccounted

\* a transaction with two matching reads, one of them 10 s away, and one
\* Success Operation incident
C24_SeveralReadsReached ==
    /\ BatchDone /\ Len(lines) = 3
    /\ \E pos \in Range(lines) :
        /\ IsPos(pos) /\ ScanConfirmed(pos)
        /\ \E r \in SuccessReads(pos) : Abs(Seconds(r) - Seconds(pos)) = SuccessWindow
        /\ Cardinality({i \in DOMAIN lines : lines[i] \in SuccessReads(pos)}) = 2
        /\ Len(Named(outfile, "Succes Operation")) = 1

-----------------------------------------------------------------------------
(* C25: a snapshot in which several SKUs diverge *)

\* the items of a snapshot that are tracked and off the ledger by more than 5
Diverging(items, ledger) ==
    {i \in DOMAIN items :
        /\ items[i][1] \in DOMAIN ledger
        /\ Abs(ledger[items[i][1]] - items[i][2]) > StreamInventoryThreshold}

\* C25: the streaming step that processes a snapshot writes as many Inventory
\* Discrepancy incidents as the snapshot has diverging tracked SKUs, all with
\* the snapshot's timestamp, and leaves each of these SKUs at the snapshot's
\* count in the ledger.
C25_EveryDivergenceReported ==
    [][SnapshotStep =>
        LET diverging == Diverging(stream_data'.data, inventory_levels)
            reported == Named(line_events', "Inventory Discrepancy")
        IN  /\ Len(reported) = Cardinality(diverging)
            /\ \A i \in DOMAIN reported : reported[i].timestamp = stream_data'.timestamp
            /\ \A i \in diverging :
                inventory_levels'[stream_data'.data[i][1]] = stream_data'.data[i][2]
      ]_vars

\* What holds of C25: a snapshot yields one incident if any SKU diverges and
\* none otherwise, with the snapshot's timestamp.
C25_AtMostOneReported ==
    [][SnapshotStep =>
        LET diverging == Diverging(stream_data'.data, inventory_levels)
            reported == Named(line_events', "Inventory Discrepancy")
        IN  /\ Len(reported) = IF diverging = {} THEN 0 ELSE 1
            /\ \A i \in DOMAIN reported : reported[i].timestamp = stream_data'.timestamp
      ]_vars

\* a processed snapshot with both SKUs off the ledger and one incident
C25_TwoDivergeReached ==
    /\ StreamProcessed /\ next_line = 2 /\ IsSnapshot(stream_data)
    /\ Cardinality(Diverging(stream_data.data, LedgerOf(ItemsOf(initial_inventory)))) = 2
    /\ Len(line_events) = 1

-----------------------------------------------------------------------------
(* C26: batch Inventory Discrepancy *)

\* the snapshots of the input, in file order
Snapshots == SelectSeq(lines, IsSnapshot)

\* the transactions of the SKU timestamped after the snapshot
SalesAfter(snapshot, sku) ==
    Cardinality({i \in DOMAIN lines :
        /\ IsPos(lines[i]) /\ Get(lines[i].data, "sku") = sku
        /\ Seconds(lines[i]) > Seconds(snapshot)})

\* the two counts differ by more than 5 and by more than 10 % of the actual
DiffersEnough(expected, actual) ==
    /\ Abs(expected - actual) > InventoryAbsThreshold
    /\ 100 * Abs(expected - actual) > InventoryThresholdPercent * actual

\* the log holds, for every item of the first snapshot, the incident made by
\* Report of the ledger-tracked count and the snapshot count if they differ
\* enough, and no other Inventory Discrepancy incident
BatchInventoryLog(Report(_, _, _, _)) ==
    LET snapshot == Snapshots[1]
        tracked(item) == item[2] - SalesAfter(snapshot, item[1])
        fires(item) == DiffersEnough(tracked(item), item[2])
    IN  /\ \A i \in DOMAIN snapshot.data :
            LET item == snapshot.data[i]
            IN  CountIn(outfile, Report(snapshot.timestamp, item[1], tracked(item), item[2]))
                    = IF fires(item) THEN 1 ELSE 0
        /\ Len(Named(outfile, "Inventory Discrepancy"))
                = Cardinality({i \in DOMAIN snapshot.data : fires(snapshot.data[i])})
        /\ data.inventory_snapshots = Snapshots

\* the incident with the two counts under each other's name
InventoryIncidentSwapped(ts, sku, tracked, counted) ==
    InventoryIncident(ts, sku, counted, tracked)

\* C26: a finished batch run reports a SKU of the first snapshot exactly when
\* the ledger-tracked count (snapshot count less the later transactions of the
\* SKU) and the snapshot count differ by more than 5 and by more than 10 % of
\* the snapshot count, with the ledger-tracked count as Expected_Inventory and
\* the snapshot count as Actual_Inventory, and leaves the snapshot as it was.
C26_LedgerAsExpected ==
    (BatchDone /\ Snapshots # <<>>) => BatchInventoryLog(InventoryIncident)

\* What holds of C26: all of it but the two names: Expected_Inventory is the
\* snapshot count and Actual_Inventory the ledger-tracked count.
C26_SnapshotAsExpected ==
    (BatchDone /\ Snapshots # <<>>) => BatchInventoryLog(InventoryIncidentSwapped)

\* a finished batch run that reported a SKU
C26_ReportReached ==
    /\ BatchDone /\ Snapshots # <<>>
    /\ Len(Named(outfile, "Inventory Discrepancy")) = 1
    /\ CountIn(outfile, InventoryIncident(<<2, 0>>, "A", 10, 4)) = 1

-----------------------------------------------------------------------------
(* C27: streaming windows and records out of timestamp order *)

\* the streamed transaction fired the rule, and the record the rule looked up
FiredOn(name, last) ==
    /\ StreamProcessed /\ IsPos(stream_data)
    /\ Named(line_events, name) # <<>>
    /\ last # <<>>

\* C27: a streamed transaction yields a Scanner Avoidance or a Barcode
\* Switching incident only if the station's last IN_SCAN_AREA read, or last
\* recognition, is timestamped at most 5 s before or after the transaction,
\* in whatever order the records arrived.
C27_WindowBothSides ==
    (StreamProcessed /\ IsPos(stream_data) /\ Has(stream_data, "station_id")) =>
        LET read == LastScanRead(stream_data.station_id)
            rec == LastRecognition(stream_data.station_id)
        IN  /\ Named(line_events, "Scanner Avoidance") # <<>> =>
                (read # <<>> /\ Abs(Seconds(read[1]) - Seconds(stream_data)) <= StreamWindow)
            /\ Named(line_events, "Barcode Switching") # <<>> =>
                (rec # <<>> /\ Abs(Seconds(rec[1]) - Seconds(stream_data)) <= StreamWindow)

\* What holds of C27: the looked-up record is timestamped less than 5 s
\* before the transaction, or at any time after it.
C27_WindowOneSide ==
    (StreamProcessed /\ IsPos(stream_data) /\ Has(stream_data, "station_id")) =>
        LET read == LastScanRead(stream_data.station_id)
            rec == LastRecognition(stream_data.station_id)
        IN  /\ Named(line_events, "Scanner Avoidance") # <<>> =>
                (read # <<>> /\ Seconds(stream_data) - Seconds(read[1]) < StreamWindow)
            /\ Named(line_events, "Barcode Switching") # <<>> =>
                (rec # <<>> /\ Seconds(stream_data) - Seconds(rec[1]) < StreamWindow)

\* a transaction at 0:10 reported against a read timestamped 0:21
C27_LateReadReached ==
    /\ FiredOn("Scanner Avoidance", LastScanRead(stream_data.station_id))
    /\ Seconds(LastScanRead(stream_data.station_id)[1]) - Seconds(stream_data) > StreamWindow

-----------------------------------------------------------------------------
(* C28: frame of the streaming ledger *)

\* sales of a tracked SKU, of an untracked one and of none, records of the
\* other sources, and a snapshot that lists an untracked SKU
FrameLines ==
    {PosLine("SCC1", <<0, 10>>, sku, -1) : sku \in {"A", "C", None}}
    \cup {PosLine("SCC1", <<0, 10>>, "", -1),
          RfidLine("SCC1", <<0, 6>>, "A", "IN_SCAN_AREA"),
          QueueLine("SCC1", <<0, 10>>, 7, 301),
          RecogLine("SCC1", <<0, 6>>, "A", 90),
          SnapshotLine(<<0, 20>>, <<<<"A", 90>>, <<"C", 5>>>>)}

InitFrame == InitWith(BoundedSeq(FrameLines, MaxLines), {Catalog100}, {Ledger100})

SpecFrame == InitFrame /\ [][Next]_vars

\* the streaming step that processes one record
RecordStep == mode = "stream" /\ pc = "running" /\ next_line' = next_line + 1

\* C28: in every streaming step the ledger keeps the keys of the initial
\* inventory; a transaction of a tracked SKU lowers that SKU by 1 and leaves
\* the others, a transaction of an untracked, empty or absent SKU leaves the
\* ledger as it is, and so does an RFID, queue or recognition record.
C28_LedgerFrame ==
    [][RecordStep =>
        LET sku == Get(GetOr(stream_data', "data", <<>>), "sku")
        IN  /\ DOMAIN inventory_levels' = DOMAIN LedgerOf(ItemsOf(initial_inventory))
            /\ (IsPos(stream_data') /\ sku \in DOMAIN inventory_levels) =>
                /\ inventory_levels'[sku] = inventory_levels[sku] - 1
                /\ \A other \in DOMAIN inventory_levels \ {sku} :
                    inventory_levels'[other] = inventory_levels[other]
            /\ (IsPos(stream_data') /\ sku \notin DOMAIN inventory_levels) =>
                inventory_levels' = inventory_levels
            /\ (IsRfid(stream_data') \/ IsQueue(stream_data') \/ IsRecog(stream_data')) =>
                inventory_levels' = inventory_levels
      ]_vars

\* a sale of the tracked SKU after a snapshot that listed an untracked one
C28_Witness ==
    /\ StreamProcessed /\ next_line = 4
    /\ IsSnapshot(lines[1]) /\ IsPos(lines[2]) /\ Get(lines[2].data, "sku") = "C"
    /\ IsPos(stream_data) /\ Get(stream_data.data, "sku") = "A"
    /\ inventory_levels = [A |-> 89, B |-> 100]

-----------------------------------------------------------------------------
(* C29: order of the streaming log *)

\* the place of a rule in the list of detectors
DetectorRank(name) ==
    CASE name = "Scanner Avoidance" -> 1
      [] name = "Inventory Discrepancy" -> 2
      [] name = "Long Queue Length" -> 3
      [] name = "Long Wait Time" -> 4
      [] name = "Weight Discrepancies" -> 5
      [] OTHER -> 6

NonDecreasing(s) == \A i \in 1..(Len(s) - 1) : Seconds(s[i]) <= Seconds(s[i + 1])

\* C29: every streaming step appends to the log the incidents of the record
\* it processed, each with the record's timestamp, in the order of the list
\* of detectors and at most one per detector; so when the records read so far
\* came in non-decreasing timestamp order the log is in that order too.
C29_ArrivalOrder ==
    [][RecordStep =>
        /\ outfile' = outfile \o line_events'
        /\ \A i \in DOMAIN line_events' : line_events'[i].timestamp = stream_data'.timestamp
        /\ \A i \in 1..(Len(line_events') - 1) :
            DetectorRank(line_events'[i].event_data.event_name)
                < DetectorRank(line_events'[i + 1].event_data.event_name)
        /\ NonDecreasing(SubSeq(lines, 1, next_line)) => NonDecreasing(outfile')
      ]_vars

\* a record in timestamp order has added the incidents of two detectors below
\* those of an earlier record
C29_Witness ==
    /\ StreamProcessed
    /\ NonDecreasing(LinesRead)
    /\ Len(line_events) = 2 /\ Len(outfile) > 2
    /\ Seconds(outfile[1]) < Seconds(outfile[Len(outfile)])

====
